---- MODULE Spec2Model ----
(***************************************************************************)
(* Cornelius: extraction of an isosurface from one grid cell in 2, 3 or 4  *)
(* dimensions (Square -> Line, Cube -> Polygon, Hypercube -> Polyhedron)   *)
(* and the Cornelius facade that owns one cell object per dimension.       *)
(*                                                                         *)
(* Numbers.  The code works on doubles; the model works in fixed point.    *)
(*   - a length or coordinate c is the integer c * Scale;                  *)
(*   - a field value f (corner sample, threshold) is the integer 4 * f, so *)
(*     the spec's corners 0.0 / 1.0 and threshold 0.5 are 0 / 4 and 2;     *)
(*   - every quotient is rounded to the nearest integer (RDiv), every      *)
(*     square root is the integer square root (ISqrt).                     *)
(* Vectors are the code's std::array<double, DIM>: 4-tuples, C++ index k   *)
(* is TLA+ index k + 1.                                                    *)
(***************************************************************************)
EXTENDS Integers, Sequences, FiniteSets, TLC

\* Fixed-point unit: Scale model units are one unit of length.
Scale == 2 * 60

DIM == 4
STEPS == 2
NSQUARES == 6
NCUBES == 8

\* Square.h: the offsets that keep a cut away from a corner lying exactly on
\* the threshold.  In model units ALMOST_ZERO * dx is dx \div Scale (one unit
\* per unit of length) and ALMOST_ONE * dx is dx - dx \div Scale.
AlmostZero(d) == d \div Scale
AlmostOne(d) == d - (d \div Scale)

\* Polygon.h / Polyhedron.h EPSILON: far above ALMOST_ZERO * dx, far below
\* the distance of two different cut points.
EPSILON == 8

------------------------------------------------------------------------------
(* Arithmetic helpers *)

Abs(x) == IF x < 0 THEN -x ELSE x


\* double division a / b, rounded to the nearest model unit (b # 0)
RDiv(a, b) ==
  LET n == IF b < 0 THEN -a ELSE a
      d == Abs(b)
  IN  IF n >= 0 THEN (2 * n + d) \div (2 * d)
      ELSE -((2 * (-n) + d) \div (2 * d))

\* std::sqrt on a non-negative integer: the largest r with r * r <= n
RECURSIVE ISqrtBis(_, _, _)
ISqrtBis(n, lo, hi) ==
  IF hi - lo <= 1 THEN lo
  ELSE LET mid == (lo + hi) \div 2
       IN  IF mid * mid <= n THEN ISqrtBis(n, mid, hi)
           ELSE ISqrtBis(n, lo, mid)

ISqrt(n) == ISqrtBis(n, 0, 46341)

At(v, k) == v[k + 1]

ZeroVec == <<0, 0, 0, 0>>

\* a sequence given as a function, stored element by element
Tup(f) == f \o <<>>

\* the 4-vector with components F(0), ..., F(3)
Vec4(F(_)) == <<F(0), F(1), F(2), F(3)>>

\* a local of the code that is assigned once and read several times: F is
\* applied to the value of v, which is computed once
With(v, F(_)) == CHOOSE r \in {F(x) : x \in {v}} : TRUE

VAdd(u, v) == <<u[1] + v[1], u[2] + v[2], u[3] + v[3], u[4] + v[4]>>
VSub(u, v) == <<u[1] - v[1], u[2] - v[2], u[3] - v[3], u[4] - v[4]>>
VNeg(u) == <<-u[1], -u[2], -u[3], -u[4]>>
VRDiv(u, d) == <<RDiv(u[1], d), RDiv(u[2], d), RDiv(u[3], d), RDiv(u[4], d)>>
VScale(w, u) == <<w * u[1], w * u[2], w * u[3], w * u[4]>>
VDot(u, v) == u[1] * v[1] + u[2] * v[2] + u[3] * v[3] + u[4] * v[4]

\* sum over i of |u[i] - v[i]|, the distance used by every coincidence test
Dist1(u, v) ==
  Abs(u[1] - v[1]) + Abs(u[2] - v[2]) + Abs(u[3] - v[3]) + Abs(u[4] - v[4])

RECURSIVE VSum(_)
VSum(vs) == IF vs = <<>> THEN ZeroVec ELSE VAdd(Head(vs), VSum(Tail(vs)))

RECURSIVE ISum(_)
ISum(xs) == IF xs = <<>> THEN 0 ELSE Head(xs) + ISum(Tail(xs))

\* the free coordinate indices left by the constant ones, ascending
FreeIdx(consts) ==
  LET free == {k \in 0..(DIM - 1) : k \notin consts}
      RECURSIVE Asc(_)
      Asc(S) == IF S = {} THEN <<>>
                ELSE LET m == CHOOSE x \in S : \A y \in S : x <= y
                     IN  <<m>> \o Asc(S \ {m})
  IN  Asc(free)

------------------------------------------------------------------------------
(* GeneralGeometryElement *)

\* flip the normal when it points towards the outside reference point
\* (positive projection on v_out), so that it points away from it
flip_normal_if_needed(n, v_out) == IF VDot(n, v_out) > 0 THEN VNeg(n) ELSE n

------------------------------------------------------------------------------
(* Line *)

\* Line::init_line: the two end points, the outside point and the two
\* constant indices; the lazily computed centroid and normal start unset
init_line(points_temp, out_temp, const_i) ==
  [start |-> points_temp[1], end |-> points_temp[2], out |-> out_temp,
   const_i |-> const_i]

\* Line::flip_start_end
flip_start_end(l) == [l EXCEPT !.start = l.end, !.end = l.start]

\* Line::calculate_centroid: the mid point of the segment
LineCentroid(l) == VRDiv(VAdd(l.start, l.end), 2)

\* Line::calculate_normal: the segment turned by 90 degrees in its plane,
\* oriented by the outside point
LineNormal(l) ==
  LET fr == FreeIdx({l.const_i[1], l.const_i[2]})
      x1 == fr[1]
      x2 == fr[2]
      c == LineCentroid(l)
      raw == Vec4(LAMBDA k :
                IF k = x1 THEN -(At(l.end, x2) - At(l.start, x2))
                ELSE IF k = x2 THEN At(l.end, x1) - At(l.start, x1)
                ELSE 0)
  IN  flip_normal_if_needed(raw, VSub(l.out, c))

------------------------------------------------------------------------------
(* Square *)

ZeroVec2 == <<0, 0>>

\* Square::Square: not ambiguous, no cuts, no lines
NewSquare ==
  [points |-> <<ZeroVec2, ZeroVec2>>, const_i |-> <<0, 0>>,
   const_value |-> <<0, 0>>, dx |-> ZeroVec, x1 |-> 0, x2 |-> 0,
   ambiguous |-> FALSE, number_cuts |-> 0, number_lines |-> 0,
   cuts |-> <<>>, out |-> <<>>, lines |-> <<>>, fatal |-> FALSE]

\* Square::init_square: corner values, constant indices and values, spacing;
\* x1 < x2 are the free indices, every counter and the ambiguity flag reset
init_square(sq, c_i, c_v, dx0) ==
  LET fr == FreeIdx({c_i[1], c_i[2]})
  IN  [points |-> sq, const_i |-> c_i, const_value |-> c_v, dx |-> dx0,
       x1 |-> fr[1], x2 |-> fr[2],
       ambiguous |-> FALSE, number_cuts |-> 0, number_lines |-> 0,
       cuts |-> <<>>, out |-> <<>>, lines |-> <<>>, fatal |-> FALSE]

\* a * b < 0 on doubles
OppositeSigns(a, b) == (a < 0 /\ b > 0) \/ (a > 0 /\ b < 0)

\* EdgeCut without the cuts next to an end that equals the threshold
EdgeCut_strict(va, vb, value0, len) ==
  IF OppositeSigns(va - value0, vb - value0)
    THEN <<RDiv((va - value0) * len, va - vb)>>
  ELSE <<>>

\* EdgeCut with the cut measured from the end of the edge
EdgeCut_from_end(va, vb, value0, len) ==
  IF OppositeSigns(va - value0, vb - value0)
    THEN <<RDiv((vb - value0) * len, vb - va)>>
  ELSE IF va = value0 /\ vb < value0 THEN <<AlmostZero(len)>>
  ELSE IF vb = value0 /\ va < value0 THEN <<AlmostOne(len)>>
  ELSE <<>>

\* one edge of Square::ends_of_edge: va, vb the corner values at its start
\* and end, len the edge length; the result is <<>> (no cut) or <<t>> with t
\* the position of the cut along the edge
EdgeCut(va, vb, value0, len) ==
  IF OppositeSigns(va - value0, vb - value0)
    THEN <<RDiv((va - value0) * len, va - vb)>>
  ELSE IF va = value0 /\ vb < value0 THEN <<AlmostZero(len)>>
  ELSE IF vb = value0 /\ va < value0 THEN <<AlmostOne(len)>>
  ELSE <<>>

\* Square::ends_of_edge: the cuts of the 4 edges in the order of the code,
\* each cut a pair <<position along x1, position along x2>>
ends_of_edge(s, value0) ==
  LET p == s.points
      d1 == At(s.dx, s.x1)
      d2 == At(s.dx, s.x2)
      c1 == With(EdgeCut(p[1][1], p[2][1], value0, d1), LAMBDA e :
                   IF e = <<>> THEN <<>> ELSE << <<e[1], 0>> >>)
      c2 == With(EdgeCut(p[1][1], p[1][2], value0, d2), LAMBDA e :
                   IF e = <<>> THEN <<>> ELSE << <<0, e[1]>> >>)
      c3 == With(EdgeCut(p[2][1], p[2][2], value0, d2), LAMBDA e :
                   IF e = <<>> THEN <<>> ELSE << <<d1, e[1]>> >>)
      c4 == With(EdgeCut(p[1][2], p[2][2], value0, d1), LAMBDA e :
                   IF e = <<>> THEN <<>> ELSE << <<e[1], d2>> >>)
  IN  With(s.cuts \o c1 \o c2 \o c3 \o c4, LAMBDA cs :
        [s EXCEPT !.cuts = cs, !.number_cuts = Len(cs),
                  !.fatal = (Len(cs) # 0 /\ Len(cs) # 2 /\ Len(cs) # 4)])

\* find_outside with the cuts swapped when corner (0,0) and the middle are
\* on different sides
find_outside_swaps_across(s, value0) ==
  LET p == s.points
      d1 == At(s.dx, s.x1)
      d2 == At(s.dx, s.x2)
  IN
  IF s.number_cuts = 4 THEN
    LET sum4 == p[1][1] + p[1][2] + p[2][1] + p[2][2]
        \* value_middle = 0.25 * sum4 is compared with value only
        midBelow == sum4 < 4 * value0
        midAbove == sum4 > 4 * value0
        swap == (p[1][1] < value0 /\ midAbove) \/ (p[1][1] > value0 /\ midBelow)
        cs == IF swap THEN <<s.cuts[1], s.cuts[3], s.cuts[2], s.cuts[4]>>
              ELSE s.cuts
        o == IF midBelow
               THEN << <<RDiv(d1, 2), RDiv(d2, 2)>>, <<RDiv(d1, 2), RDiv(d2, 2)>> >>
             ELSE IF p[1][1] < value0
               THEN << <<0, 0>>, <<d1, d2>> >>
             ELSE << <<d1, 0>>, <<0, d2>> >>
    IN  [s EXCEPT !.ambiguous = TRUE, !.cuts = cs, !.out = o]
  ELSE
    LET b00 == p[1][1] < value0
        b01 == p[1][2] < value0
        b10 == p[2][1] < value0
        b11 == p[2][2] < value0
        number_out == (IF b00 THEN 1 ELSE 0) + (IF b01 THEN 1 ELSE 0)
                      + (IF b10 THEN 1 ELSE 0) + (IF b11 THEN 1 ELSE 0)
        s1 == (IF b10 THEN d1 ELSE 0) + (IF b11 THEN d1 ELSE 0)
        s2 == (IF b01 THEN d2 ELSE 0) + (IF b11 THEN d2 ELSE 0)
        o0 == IF number_out > 0
                THEN <<RDiv(s1, number_out), RDiv(s2, number_out)>>
              ELSE <<s1, s2>>
    IN  [s EXCEPT !.out = <<o0, <<0, 0>> >>]

\* Square::find_outside
find_outside(s, value0) ==
  LET p == s.points
      d1 == At(s.dx, s.x1)
      d2 == At(s.dx, s.x2)
  IN
  IF s.number_cuts = 4 THEN
    LET sum4 == p[1][1] + p[1][2] + p[2][1] + p[2][2]
        \* value_middle = 0.25 * sum4 is compared with value only
        midBelow == sum4 < 4 * value0
        midAbove == sum4 > 4 * value0
        swap == (p[1][1] < value0 /\ midBelow) \/ (p[1][1] > value0 /\ midAbove)
        cs == IF swap THEN <<s.cuts[1], s.cuts[3], s.cuts[2], s.cuts[4]>>
              ELSE s.cuts
        o == IF midBelow
               THEN << <<RDiv(d1, 2), RDiv(d2, 2)>>, <<RDiv(d1, 2), RDiv(d2, 2)>> >>
             ELSE IF p[1][1] < value0
               THEN << <<0, 0>>, <<d1, d2>> >>
             ELSE << <<d1, 0>>, <<0, d2>> >>
    IN  [s EXCEPT !.ambiguous = TRUE, !.cuts = cs, !.out = o]
  ELSE
    LET b00 == p[1][1] < value0
        b01 == p[1][2] < value0
        b10 == p[2][1] < value0
        b11 == p[2][2] < value0
        number_out == (IF b00 THEN 1 ELSE 0) + (IF b01 THEN 1 ELSE 0)
                      + (IF b10 THEN 1 ELSE 0) + (IF b11 THEN 1 ELSE 0)
        s1 == (IF b10 THEN d1 ELSE 0) + (IF b11 THEN d1 ELSE 0)
        s2 == (IF b01 THEN d2 ELSE 0) + (IF b11 THEN d2 ELSE 0)
        o0 == IF number_out > 0
                THEN <<RDiv(s1, number_out), RDiv(s2, number_out)>>
              ELSE <<s1, s2>>
    IN  [s EXCEPT !.out = <<o0, <<0, 0>> >>]

\* the 4-vector with a, b at the free indices x1, x2 and the constant values
\* at the constant indices, assigned in the order of the code
MkPoint(s, a, b) ==
  Vec4(LAMBDA k :
     IF k = s.const_i[2] THEN s.const_value[2]
     ELSE IF k = s.const_i[1] THEN s.const_value[1]
     ELSE IF k = s.x2 THEN b
     ELSE IF k = s.x1 THEN a
     ELSE 0)

\* the mask of Square::construct_lines
CornerMask(p, value0) ==
  (IF p[1][1] >= value0 THEN 1 ELSE 0) + (IF p[1][2] >= value0 THEN 2 ELSE 0)
  + (IF p[2][1] >= value0 THEN 4 ELSE 0) + (IF p[2][2] >= value0 THEN 8 ELSE 0)

\* construct_lines with one line made of the first two cuts, whatever
\* the number of cuts
construct_lines_first_pair(s0, value0) ==
  LET mask == CornerMask(s0.points, value0)
  IN
  IF mask = 0 \/ mask = 15 THEN [s0 EXCEPT !.number_lines = 0]
  ELSE
    With(ends_of_edge(s0, value0), LAMBDA s1 :
      IF s1.fatal THEN s1
      ELSE
        With(IF s1.number_cuts > 0 THEN find_outside(s1, value0) ELSE s1,
             LAMBDA s2 :
          LET mk(i) == init_line(
                         <<MkPoint(s2, s2.cuts[i][1], s2.cuts[i][2]),
                           MkPoint(s2, s2.cuts[i + 1][1], s2.cuts[i + 1][2])>>,
                         MkPoint(s2, s2.out[(i + 1) \div 2][1],
                                     s2.out[(i + 1) \div 2][2]),
                         s2.const_i)
              ls == IF s2.number_cuts \in {2, 4} THEN <<mk(1)>> ELSE <<>>
          IN  [s2 EXCEPT !.lines = ls, !.number_lines = Len(ls)]))

\* Square::construct_lines
construct_lines(s0, value0) ==
  LET mask == CornerMask(s0.points, value0)
  IN
  IF mask = 0 \/ mask = 15 THEN [s0 EXCEPT !.number_lines = 0]
  ELSE
    With(ends_of_edge(s0, value0), LAMBDA s1 :
      IF s1.fatal THEN s1
      ELSE
        With(IF s1.number_cuts > 0 THEN find_outside(s1, value0) ELSE s1,
             LAMBDA s2 :
          LET mk(i) == init_line(
                         <<MkPoint(s2, s2.cuts[i][1], s2.cuts[i][2]),
                           MkPoint(s2, s2.cuts[i + 1][1], s2.cuts[i + 1][2])>>,
                         MkPoint(s2, s2.out[(i + 1) \div 2][1],
                                     s2.out[(i + 1) \div 2][2]),
                         s2.const_i)
              ls == IF s2.number_cuts = 2 THEN <<mk(1)>>
                    ELSE IF s2.number_cuts = 4 THEN <<mk(1), mk(3)>>
                    ELSE <<>>
          IN  [s2 EXCEPT !.lines = ls, !.number_lines = Len(ls)]))

------------------------------------------------------------------------------
(* Polygon *)

\* the three free indices of a Cube / Polygon with constant index const_i
\* (x_lookup of Cube::init_cube, the switch of Polygon::init_polygon)
XLookup(const_i) == FreeIdx({const_i})

\* v[n] = x on a std::vector that is grown by emplace_back when n is its size
PutAt(v, n, x) == IF n >= Len(v) THEN Append(v, x) ELSE [v EXCEPT ![n + 1] = x]

\* Polygon::Polygon: no lines (the index members are set by init_polygon
\* before they are read)
NewPolygon == [const_i |-> 0, x1 |-> 0, x2 |-> 0, x3 |-> 0, lines |-> <<>>]

\* Polygon::init_polygon: no lines, centroid and normal not calculated
init_polygon(new_const_i) ==
  LET x == XLookup(new_const_i)
  IN  [const_i |-> new_const_i, x1 |-> x[1], x2 |-> x[2], x3 |-> x[3],
       lines |-> <<>>]

\* add_line that accepts a line only when its start point meets the chain
add_line_start_only(poly, new_line, perform_no_check) ==
  IF Len(poly.lines) = 0 \/ perform_no_check
    THEN <<TRUE, [poly EXCEPT !.lines = Append(@, new_line)]>>
  ELSE
    LET last_end_point == poly.lines[Len(poly.lines)].end
        difference1 == Dist1(new_line.start, last_end_point)
    IN  IF difference1 < EPSILON
          THEN <<TRUE, [poly EXCEPT !.lines = Append(@, new_line)]>>
        ELSE <<FALSE, poly>>

\* add_line without the flip of a line that meets the chain with its end
add_line_never_flips(poly, new_line, perform_no_check) ==
  IF Len(poly.lines) = 0 \/ perform_no_check
    THEN <<TRUE, [poly EXCEPT !.lines = Append(@, new_line)]>>
  ELSE
    LET last_end_point == poly.lines[Len(poly.lines)].end
        difference1 == Dist1(new_line.start, last_end_point)
        difference2 == Dist1(new_line.end, last_end_point)
    IN  IF difference1 < EPSILON \/ difference2 < EPSILON
          THEN <<TRUE, [poly EXCEPT !.lines = Append(@, new_line)]>>
        ELSE <<FALSE, poly>>

\* Polygon::add_line: the result is <<added, polygon>>; the line is stored
\* flipped when its end point is the one that meets the last end point
add_line(poly, new_line, perform_no_check) ==
  IF Len(poly.lines) = 0 \/ perform_no_check
    THEN <<TRUE, [poly EXCEPT !.lines = Append(@, new_line)]>>
  ELSE
    LET last_end_point == poly.lines[Len(poly.lines)].end
        difference1 == Dist1(new_line.start, last_end_point)
        difference2 == Dist1(new_line.end, last_end_point)
    IN  IF difference1 < EPSILON \/ difference2 < EPSILON
          THEN <<TRUE,
                 [poly EXCEPT !.lines =
                    Append(@, IF difference2 < EPSILON
                                THEN flip_start_end(new_line)
                                ELSE new_line)]>>
        ELSE <<FALSE, poly>>

\* areas are carried in units of AreaUnit squared model units, which keeps
\* the squares of the cross products in range
AreaUnit == 2 * 4

\* the cross product of a and b in the free coordinates x1, x2, x3, as the
\* three components used by Polygon::calculate_centroid / calculate_normal
Cross3(a, b, x1, x2, x3) ==
  <<At(a, x2) * At(b, x3) - At(a, x3) * At(b, x2),
    At(a, x1) * At(b, x3) - At(a, x3) * At(b, x1),
    At(a, x1) * At(b, x2) - At(a, x2) * At(b, x1)>>

\* PolygonMean with the sum divided by the number of lines
PolygonMean_per_line(poly) ==
  VRDiv(VSum(Tup([i \in 1..Len(poly.lines) |->
                    VAdd(poly.lines[i].start, poly.lines[i].end)])),
        Len(poly.lines))

\* the mean of all end points of the lines of a polygon
PolygonMean(poly) ==
  LET n == Len(poly.lines)
      tot == VSum(Tup([i \in 1..n |->
                         VAdd(poly.lines[i].start, poly.lines[i].end)]))
  IN  VRDiv(tot, 2 * n)

\* Polygon::calculate_centroid
PolygonCentroid(poly) ==
  With(PolygonMean(poly), LAMBDA mean_values :
    LET n == Len(poly.lines)
        tri(l) ==
          With(Cross3(VSub(poly.lines[l].start, mean_values),
                      VSub(poly.lines[l].end, mean_values),
                      poly.x1, poly.x2, poly.x3), LAMBDA cp :
            With(<<RDiv(cp[1], AreaUnit), RDiv(cp[2], AreaUnit),
                   RDiv(cp[3], AreaUnit)>>, LAMBDA q :
              [A |-> ISqrt(q[1] * q[1] + q[2] * q[2] + q[3] * q[3]),
               c |-> VRDiv(VAdd(VAdd(poly.lines[l].start, poly.lines[l].end),
                                mean_values), 3)]))
    IN  IF n = 3 THEN mean_values
        ELSE With(Tup([l \in 1..n |-> tri(l)]), LAMBDA tris :
               VRDiv(VSum(Tup([l \in 1..n |-> VScale(tris[l].A, tris[l].c)])),
                     ISum(Tup([l \in 1..n |-> tris[l].A])))))

\* TriangleNormal without flip_normal_if_needed
TriangleNormal_unflipped(poly, c, i) ==
  With(Cross3(VSub(poly.lines[i].start, c), VSub(poly.lines[i].end, c),
              poly.x1, poly.x2, poly.x3), LAMBDA cp :
    Vec4(LAMBDA k :
           IF k = poly.const_i THEN 0
           ELSE IF k = poly.x1 THEN cp[1]
           ELSE IF k = poly.x2 THEN -cp[2]
           ELSE cp[3]))

\* the normal of the triangle (line i, centroid c) of Polygon::calculate_normal
\* after flip_normal_if_needed; the model carries twice the code's vector
TriangleNormal(poly, c, i) ==
  With(Cross3(VSub(poly.lines[i].start, c), VSub(poly.lines[i].end, c),
              poly.x1, poly.x2, poly.x3), LAMBDA cp :
    flip_normal_if_needed(Vec4(LAMBDA k :
                                 IF k = poly.const_i THEN 0
                                 ELSE IF k = poly.x1 THEN cp[1]
                                 ELSE IF k = poly.x2 THEN -cp[2]
                                 ELSE cp[3]),
                          VSub(poly.lines[i].out, c)))

\* Polygon::calculate_normal (twice the code's vector, in squared model units)
PolygonNormal(poly) ==
  With(PolygonCentroid(poly), LAMBDA c :
    VSum(Tup([i \in 1..Len(poly.lines) |-> TriangleNormal(poly, c, i)])))

------------------------------------------------------------------------------
(* Cube *)

\* Cube::Cube: counters zero, not ambiguous, one default Polygon; the arrays
\* are written by init_cube / construct_polygons before they are read
NewCube ==
  [cube |-> << <<ZeroVec2, ZeroVec2>>, <<ZeroVec2, ZeroVec2>> >>,
   const_i |-> 0, const_value |-> 0, dx |-> ZeroVec, x1 |-> 0, x2 |-> 0, x3 |-> 0,
   number_lines |-> 0, number_polygons |-> 0, ambiguous |-> FALSE,
   polygons |-> <<NewPolygon>>, squares |-> Tup([n \in 1..NSQUARES |-> NewSquare]),
   lines |-> <<>>, fatal |-> FALSE]

\* init_cube without the reset of number_polygons and of the polygons
init_cube_keeps_polygons(c, cu, new_const_i, new_const_value, new_dx) ==
  LET x == XLookup(new_const_i)
  IN  [c EXCEPT !.cube = cu, !.const_i = new_const_i,
                !.const_value = new_const_value, !.dx = new_dx,
                !.x1 = x[1], !.x2 = x[2], !.x3 = x[3],
                !.number_lines = 0, !.ambiguous = FALSE]

\* Cube::init_cube on the cube object c: the corner values, the constant
\* index and value and the spacing are stored, the counters, the ambiguity
\* flag and the polygons are reset; squares and line_refs are left as they are
init_cube(c, cu, new_const_i, new_const_value, new_dx) ==
  LET x == XLookup(new_const_i)
  IN  [c EXCEPT !.cube = cu, !.const_i = new_const_i,
                !.const_value = new_const_value, !.dx = new_dx,
                !.x1 = x[1], !.x2 = x[2], !.x3 = x[3],
                !.number_lines = 0, !.number_polygons = 0, !.ambiguous = FALSE,
                !.polygons = <<NewPolygon>>]

\* CubeFace that takes side 0 of the cube whatever j is
CubeFace_side_zero(c, i, j) ==
  LET v(ci1, ci2) == IF i = c.x1 THEN c.cube[1][ci1][ci2]
                     ELSE IF i = c.x2 THEN c.cube[ci1][1][ci2]
                     ELSE c.cube[ci1][ci2][1]
  IN  << <<v(1, 1), v(1, 2)>>, <<v(2, 1), v(2, 2)>> >>

\* the face of the cube with coordinate i fixed to side j (0 or 1)
CubeFace(c, i, j) ==
  LET v(ci1, ci2) == IF i = c.x1 THEN c.cube[j + 1][ci1][ci2]
                     ELSE IF i = c.x2 THEN c.cube[ci1][j + 1][ci2]
                     ELSE c.cube[ci1][ci2][j + 1]
  IN  << <<v(1, 1), v(1, 2)>>, <<v(2, 1), v(2, 2)>> >>

\* Cube::split_to_squares: the 6 squares in the order of the code
split_to_squares(c) ==
  LET x == <<c.x1, c.x2, c.x3>>
      sq(n) ==
        LET i == x[((n - 1) \div 2) + 1]
            j == (n - 1) % 2
        IN  init_square(CubeFace(c, i, j), <<c.const_i, i>>,
                        <<c.const_value, j * At(c.dx, i)>>, c.dx)
  IN  [c EXCEPT !.squares = Tup([n \in 1..NSQUARES |-> sq(n)])]

\* check_ambiguity that leaves the flag as init_cube set it
check_ambiguity_off(c, number_lines) == c.ambiguous

\* check_ambiguity without the test for 6 lines
check_ambiguity_squares_only(c, number_lines) ==
  IF \E i \in 1..NSQUARES : c.squares[i].ambiguous THEN TRUE
  ELSE c.ambiguous

\* check_ambiguity without the test of the squares
check_ambiguity_six_lines(c, number_lines) ==
  IF number_lines = 6 THEN TRUE ELSE c.ambiguous

\* Cube::check_ambiguity
check_ambiguity(c, number_lines) ==
  IF \E i \in 1..NSQUARES : c.squares[i].ambiguous THEN TRUE
  ELSE IF number_lines = 6 THEN TRUE
  ELSE c.ambiguous

RECURSIVE ScanLines(_, _, _)

\* ScanLines that goes on behind the appended line instead of restarting
ScanLines_no_restart(lines, st, i) ==
  LET fits == {j \in i..(Len(lines) - 1) :
                 st.not_used[j + 1] /\ add_line(st.poly, lines[j + 1], FALSE)[1]}
  IN  IF fits = {} THEN st
      ELSE With(CHOOSE j \in fits : \A m \in fits : j <= m, LAMBDA n :
             ScanLines(lines,
                       [poly |-> add_line(st.poly, lines[n + 1], FALSE)[2],
                        not_used |-> [st.not_used EXCEPT ![n + 1] = FALSE],
                        used |-> st.used + 1],
                       n + 1))

\* the for loop of the ambiguous path of Cube::construct_polygons: i is the
\* loop variable, st = [poly, not_used, used]; the loop runs on to the first
\* unused line that add_line accepts; after a successful append the code sets
\* i = 0 and the loop increment makes the next index 1
ScanLines(lines, st, i) ==
  LET fits == {j \in i..(Len(lines) - 1) :
                 st.not_used[j + 1] /\ add_line(st.poly, lines[j + 1], FALSE)[1]}
  IN  IF fits = {} THEN st
      ELSE With(CHOOSE j \in fits : \A m \in fits : j <= m, LAMBDA n :
             ScanLines(lines,
                       [poly |-> add_line(st.poly, lines[n + 1], FALSE)[2],
                        not_used |-> [st.not_used EXCEPT ![n + 1] = FALSE],
                        used |-> st.used + 1],
                       0 + 1))

RECURSIVE GrowPolygons(_, _, _)

\* GrowPolygons with the polygon counted before the test of the unused lines
GrowPolygons_counts_first(c, not_used, used) ==
  IF c.number_lines - used < 3
    THEN [c EXCEPT !.fatal = TRUE,
                   !.polygons = PutAt(@, c.number_polygons,
                                      init_polygon(c.const_i)),
                   !.number_polygons = @ + 1]
  ELSE
    With(ScanLines(c.lines,
                   [poly |-> init_polygon(c.const_i),
                    not_used |-> not_used, used |-> used], 0), LAMBDA st :
      With([c EXCEPT !.polygons = PutAt(@, c.number_polygons, st.poly),
                     !.number_polygons = @ + 1], LAMBDA c2 :
        IF st.used < c.number_lines
          THEN GrowPolygons(c2, st.not_used, st.used)
        ELSE c2))

\* GrowPolygons that leaves the do-while loop after its first pass
GrowPolygons_one_pass(c, not_used, used) ==
  IF c.number_lines - used < 3 THEN [c EXCEPT !.fatal = TRUE]
  ELSE
    With(ScanLines(c.lines,
                   [poly |-> init_polygon(c.const_i),
                    not_used |-> not_used, used |-> used], 0), LAMBDA st :
      [c EXCEPT !.polygons = PutAt(@, c.number_polygons, st.poly),
                !.number_polygons = @ + 1])

\* the do-while loop of the ambiguous path: c carries the polygons so far
GrowPolygons(c, not_used, used) ==
  IF c.number_lines - used < 3 THEN [c EXCEPT !.fatal = TRUE]
  ELSE
    With(ScanLines(c.lines,
                   [poly |-> init_polygon(c.const_i),
                    not_used |-> not_used, used |-> used], 0), LAMBDA st :
      With([c EXCEPT !.polygons = PutAt(@, c.number_polygons, st.poly),
                     !.number_polygons = @ + 1], LAMBDA c2 :
        IF st.used < c.number_lines
          THEN GrowPolygons(c2, st.not_used, st.used)
        ELSE c2))

RECURSIVE AddAll(_, _)
AddAll(poly, lines) ==
  IF lines = <<>> THEN poly
  ELSE AddAll(add_line(poly, Head(lines), TRUE)[2], Tail(lines))

RECURSIVE Concat(_)
Concat(ss) == IF ss = <<>> THEN <<>> ELSE Head(ss) \o Concat(Tail(ss))

\* Cube::construct_polygons
construct_polygons(c0, value0) ==
  With(split_to_squares(c0), LAMBDA c1 :
  With(Tup([i \in 1..NSQUARES |-> construct_lines(c1.squares[i], value0)]),
       LAMBDA sqs :
  With(Concat(Tup([i \in 1..NSQUARES |-> sqs[i].lines])), LAMBDA ls :
  With([c1 EXCEPT !.squares = sqs, !.lines = ls, !.number_lines = Len(ls)],
       LAMBDA c2 :
    IF \E i \in 1..NSQUARES : sqs[i].fatal THEN [c2 EXCEPT !.fatal = TRUE]
    ELSE IF c2.number_lines = 0 THEN c2
    ELSE
      With([c2 EXCEPT !.ambiguous = check_ambiguity(c2, c2.number_lines)],
           LAMBDA c3 :
        IF c3.ambiguous
          THEN GrowPolygons(c3, Tup([i \in 1..(NSQUARES * 2) |-> TRUE]), 0)
        ELSE [c3 EXCEPT
                !.polygons = PutAt(@, c3.number_polygons,
                                   AddAll(init_polygon(c3.const_i), c3.lines)),
                !.number_polygons = @ + 1])))))

------------------------------------------------------------------------------
(* Polyhedron *)

\* Polyhedron::init_polyhedron
init_polyhedron ==
  [polygons |-> <<NewPolygon>>, number_polygons |-> 0, number_tetrahedrons |-> 0]

\* Polyhedron::lines_are_connected: the loop over the 4 coordinates, with
\* the two running differences d1 (start1 - start2) and d2 (end1 - start2)
RECURSIVE ConnectedFrom(_, _, _, _, _)
ConnectedFrom(line1, line2, i, d1, d2) ==
  IF i >= DIM THEN TRUE
  ELSE
    LET n1 == IF d1 <= EPSILON
                THEN d1 + Abs(At(line1.start, i) - At(line2.start, i))
              ELSE d1
        n2 == IF d2 <= EPSILON
                THEN d2 + Abs(At(line1.end, i) - At(line2.start, i))
              ELSE d2
    IN  IF n1 > EPSILON /\ n2 > EPSILON THEN FALSE
        ELSE ConnectedFrom(line1, line2, i + 1, n1, n2)

lines_are_connected(line1, line2) == ConnectedFrom(line1, line2, 0, 0, 0)

\* Polyhedron::add_polygon: the result is <<added, polyhedron>>
add_polygon(ph, new_polygon, perform_no_check) ==
  IF \/ ph.number_polygons = 0
     \/ perform_no_check
     \/ \E i \in 1..ph.number_polygons :
          \E j \in 1..Len(new_polygon.lines) :
            \E k \in 1..Len(ph.polygons[i].lines) :
              lines_are_connected(new_polygon.lines[j], ph.polygons[i].lines[k])
    THEN <<TRUE,
           [ph EXCEPT !.polygons = PutAt(@, ph.number_polygons, new_polygon),
                      !.number_polygons = @ + 1,
                      !.number_tetrahedrons = @ + Len(new_polygon.lines)]>>
  ELSE <<FALSE, ph>>

\* Polyhedron::tetrahedron_volume without the factor INV_SIX: the model
\* carries 6 times the code's vector, in cubed model units
tetrahedron_volume(v1, v2, v3) ==
  LET bc01 == v2[1] * v3[2] - v2[2] * v3[1]
      bc02 == v2[1] * v3[3] - v2[3] * v3[1]
      bc03 == v2[1] * v3[4] - v2[4] * v3[1]
      bc12 == v2[2] * v3[3] - v2[3] * v3[2]
      bc13 == v2[2] * v3[4] - v2[4] * v3[2]
      bc23 == v2[3] * v3[4] - v2[4] * v3[3]
  IN  <<v1[2] * bc23 - v1[3] * bc13 + v1[4] * bc12,
        -(v1[1] * bc23 - v1[3] * bc03 + v1[4] * bc02),
        v1[1] * bc13 - v1[2] * bc03 + v1[4] * bc01,
        -(v1[1] * bc12 - v1[2] * bc02 + v1[3] * bc01)>>

\* volumes used as weights are carried in units of VolUnit cubed model units
VolUnit == 6 * Scale

\* all (polygon, line) pairs of a polyhedron in the order of the code's loops
TetIndex(ph) ==
  Concat(Tup([i \in 1..ph.number_polygons |->
                Tup([j \in 1..Len(ph.polygons[i].lines) |-> <<i, j>>])]))

\* Polyhedron::calculate_centroid
PolyhedronCentroid(ph) ==
  With(TetIndex(ph), LAMBDA idx :
  With(Tup([i \in 1..ph.number_polygons |-> PolygonCentroid(ph.polygons[i])]),
       LAMBDA cents :
  With(VRDiv(VSum(Tup([t \in 1..Len(idx) |->
                         VAdd(ph.polygons[idx[t][1]].lines[idx[t][2]].start,
                              ph.polygons[idx[t][1]].lines[idx[t][2]].end)])),
             2 * ph.number_tetrahedrons), LAMBDA mean_values :
    LET tet(l, cent) ==
          With(VRDiv(tetrahedron_volume(VSub(l.start, mean_values),
                                        VSub(l.end, mean_values),
                                        VSub(cent, mean_values)), VolUnit),
               LAMBDA q :
            [V |-> ISqrt(VDot(q, q)),
             cm |-> VRDiv(VAdd(VAdd(l.start, l.end),
                               VAdd(cent, mean_values)), 4)])
    IN  With(Tup([t \in 1..Len(idx) |->
                    tet(ph.polygons[idx[t][1]].lines[idx[t][2]],
                        cents[idx[t][1]])]), LAMBDA tets :
          VRDiv(VSum(Tup([t \in 1..Len(idx) |-> VScale(tets[t].V, tets[t].cm)])),
                ISum(Tup([t \in 1..Len(idx) |-> tets[t].V])))))))

\* the normal of tetrahedron (polygon i, line j) about the centroid c of
\* Polyhedron::calculate_normal, after flip_normal_if_needed
TetNormal(ph, cents, c, i, j) ==
  With(ph.polygons[i].lines[j], LAMBDA l :
    flip_normal_if_needed(
      tetrahedron_volume(VSub(l.start, c), VSub(l.end, c), VSub(cents[i], c)),
      VSub(l.out, c)))

\* Polyhedron::calculate_normal (6 times the code's vector)
PolyhedronNormal(ph) ==
  With(PolyhedronCentroid(ph), LAMBDA c :
  With(Tup([i \in 1..ph.number_polygons |-> PolygonCentroid(ph.polygons[i])]),
       LAMBDA cents :
  With(TetIndex(ph), LAMBDA idx :
    VSum(Tup([t \in 1..Len(idx) |->
                TetNormal(ph, cents, c, idx[t][1], idx[t][2])])))))

------------------------------------------------------------------------------
(* Hypercube *)

\* field values are carried as 4 times the double
FieldScale == 2 * 2

\* conversion of a double field value to int (truncation towards zero)
DoubleToInt(v) == IF v >= 0 THEN v \div FieldScale ELSE -((-v) \div FieldScale)

\* Hypercube::Hypercube: no polyhedra, not ambiguous, 8 constructed cubes
NewHypercube ==
  [hypercube |-> <<NewCube.cube, NewCube.cube>>, dx |-> ZeroVec,
   number_polyhedra |-> 0, ambiguous |-> FALSE, polyhedra |-> <<>>,
   cubes |-> Tup([n \in 1..NCUBES |-> NewCube]), polygons |-> <<>>,
   fatal |-> FALSE]

\* Hypercube::init_hypercube on the hypercube object h; cubes and
\* polygon_refs are left as they are
init_hypercube(h, hc, new_dx) ==
  [h EXCEPT !.hypercube = hc, !.dx = new_dx, !.number_polyhedra = 0,
            !.ambiguous = FALSE, !.polyhedra = <<>>]

\* the 3-D face of the hypercube with coordinate i fixed to side j
HyperFace(h, i, j) ==
  LET v(ci1, ci2, ci3) ==
        IF i = 0 THEN h.hypercube[j + 1][ci1][ci2][ci3]
        ELSE IF i = 1 THEN h.hypercube[ci1][j + 1][ci2][ci3]
        ELSE IF i = 2 THEN h.hypercube[ci1][ci2][j + 1][ci3]
        ELSE h.hypercube[ci1][ci2][ci3][j + 1]
  IN  << << <<v(1, 1, 1), v(1, 1, 2)>>, <<v(1, 2, 1), v(1, 2, 2)>> >>,
         << <<v(2, 1, 1), v(2, 1, 2)>>, <<v(2, 2, 1), v(2, 2, 2)>> >> >>

\* Hypercube::split_to_cubes: <<the 8 cubes, number_points_below_value>>; the
\* corners below the value are counted while i = 0 (both sides j)
split_to_cubes(h, value0) ==
  LET cb(n) ==
        LET i == (n - 1) \div 2
            j == (n - 1) % 2
        IN  init_cube(h.cubes[n], HyperFace(h, i, j), i, j * At(h.dx, i), h.dx)
      below == Cardinality({q \in (1..2) \X (1..2) \X (1..2) \X (1..2) :
                              h.hypercube[q[1]][q[2]][q[3]][q[4]] < value0})
  IN  <<Tup([n \in 1..NCUBES |-> cb(n)]), below>>

\* Hypercube::check_ambiguity: the new value of the flag
hyper_check_ambiguity(h, number_points_below_value) ==
  IF \E i \in 1..NCUBES : h.cubes[i].ambiguous THEN TRUE
  ELSE
    LET number_lines == ISum(Tup([i \in 1..NCUBES |-> h.cubes[i].number_lines]))
        folded == IF number_points_below_value > 8
                    THEN 16 - number_points_below_value
                  ELSE number_points_below_value
    IN  number_lines = 24 /\ folded = 2

\* the for loop of the ambiguous path of Hypercube::construct_polyhedra
RECURSIVE ScanPolygons(_, _, _)
ScanPolygons(polys, st, i) ==
  LET fits == {j \in i..(Len(polys) - 1) :
                 st.not_used[j + 1] /\ add_polygon(st.ph, polys[j + 1], FALSE)[1]}
  IN  IF fits = {} THEN st
      ELSE With(CHOOSE j \in fits : \A m \in fits : j <= m, LAMBDA n :
             ScanPolygons(polys,
                          [ph |-> add_polygon(st.ph, polys[n + 1], FALSE)[2],
                           not_used |-> [st.not_used EXCEPT ![n + 1] = FALSE],
                           used |-> st.used + 1],
                          0 + 1))

\* the do-while loop of the ambiguous path of Hypercube::construct_polyhedra
RECURSIVE GrowPolyhedra(_, _, _)
GrowPolyhedra(h, not_used, used) ==
  With(ScanPolygons(h.polygons,
                    [ph |-> init_polyhedron, not_used |-> not_used,
                     used |-> used], 0), LAMBDA st :
    With([h EXCEPT !.polyhedra = PutAt(@, h.number_polyhedra, st.ph),
                   !.number_polyhedra = @ + 1], LAMBDA h2 :
      IF st.used < Len(h.polygons)
        THEN GrowPolyhedra(h2, st.not_used, st.used)
      ELSE h2))

RECURSIVE AddAllPolygons(_, _)
AddAllPolygons(ph, polys) ==
  IF polys = <<>> THEN ph
  ELSE AddAllPolygons(add_polygon(ph, Head(polys), TRUE)[2], Tail(polys))

\* Hypercube::construct_polyhedra after split_to_cubes: hs is the hypercube
\* with its 8 cubes initialised; check_ambiguity is called with the
\* threshold, which its int parameter receives converted to int
polyhedra_of_cubes(hs, number_points_below_value, value0) ==
  With(Tup([i \in 1..NCUBES |-> construct_polygons(hs.cubes[i], value0)]),
       LAMBDA cbs :
  With([hs EXCEPT !.cubes = cbs,
                  !.polygons =
                     Concat(Tup([i \in 1..NCUBES |->
                                   SubSeq(cbs[i].polygons, 1,
                                          cbs[i].number_polygons)]))],
       LAMBDA h1 :
    IF \E i \in 1..NCUBES : cbs[i].fatal THEN [h1 EXCEPT !.fatal = TRUE]
    ELSE
      With([h1 EXCEPT !.ambiguous =
              hyper_check_ambiguity(h1, DoubleToInt(value0))], LAMBDA h2 :
        IF h2.ambiguous
          THEN GrowPolyhedra(h2, Tup([i \in 1..(NCUBES * 10) |-> TRUE]), 0)
        ELSE [h2 EXCEPT
                !.polyhedra = PutAt(@, h2.number_polyhedra,
                                    AddAllPolygons(init_polyhedron, h2.polygons)),
                !.number_polyhedra = @ + 1])))

\* Hypercube::construct_polyhedra
construct_polyhedra(h0, value0) ==
  With(split_to_cubes(h0, value0), LAMBDA sp :
    polyhedra_of_cubes([h0 EXCEPT !.cubes = sp[1]], sp[2], value0))

------------------------------------------------------------------------------
(* Cornelius: the facade object and its callers' view *)

VARIABLES
  initialized, cube_dimension, value, dx,   \* set by init_cornelius
  number_elements, normals, centroids,      \* results of the last query
  cube_2d, cube_3d, cube_4d,                \* the owned Square, Cube, Hypercube
  pc,       \* "ready", or "exited" once exit(1) was called
  err,      \* which exit(1) was taken
  ret,      \* what the last accessor call returned or threw
  nq,       \* number of find_surface calls so far
  lastq,    \* the last find_surface call
  prevq,    \* the results that call found in place, if a query left them
  who,      \* the Cornelius object the calls are made on, "A" or "B"
  other,    \* the members of the other Cornelius object
  compared, \* two SurfaceCellInfo objects and the result of operator==
  scan      \* the last cell of the grid scan of SurfaceFinder

vars == <<initialized, cube_dimension, value, dx, number_elements, normals,
          centroids, cube_2d, cube_3d, cube_4d, pc, err, ret, nq, lastq, prevq,
          who, other, compared, scan>>

\* capacity of the result arrays of Cornelius
MAX_ELEMENTS == 10

\* content of a result row no query has written yet
Uninit == <<-7, -7, -7, -7>>

\* values an out-of-bounds read of the result arrays may deliver
Junk == {-7, 7}

NoRet == [op |-> "none", i |-> 0, c |-> 0, kind |-> "none", val |-> 0,
          rows |-> <<>>]

NoQuery == [dim |-> 0, cell |-> <<>>, value |-> 0, dx |-> ZeroVec,
            ok |-> FALSE]

NoPrev == [dim |-> 0, cell |-> <<>>, ne |-> 0, normals |-> <<>>,
           centroids |-> <<>>]

\* the corner arrays of a cell from its values in row-major order
Cell2(f) == << <<f[1], f[2]>>, <<f[3], f[4]>> >>
Cell3From(f, o) ==
  << << <<f[o + 1], f[o + 2]>>, <<f[o + 3], f[o + 4]>> >>,
     << <<f[o + 5], f[o + 6]>>, <<f[o + 7], f[o + 8]>> >> >>
Cell3(f) == Cell3From(f, 0)
Cell4(f) == <<Cell3From(f, 0), Cell3From(f, 8)>>

\* the rows copied from the front of each stored vector
BulkRows_front(arr) ==
  Tup([i \in 1..number_elements |-> SubSeq(arr[i], 1, cube_dimension)])

\* the rows copied by Cornelius::get_normals / get_centroids from an array:
\* number_elements rows, each the last cube_dimension components
BulkRows(arr) ==
  Tup([i \in 1..number_elements |->
         SubSeq(arr[i], (DIM - cube_dimension) + 1, DIM)])

\* the element read with the index test index > number_elements
ElementRead_gt(arr, index_surface_element, element) ==
  IF index_surface_element > number_elements \/ element >= cube_dimension
    THEN {[kind |-> "out_of_range", val |-> 0]}
  ELSE
    LET k == element + (DIM - cube_dimension)
    IN  IF index_surface_element < 0 \/ k < 0
          THEN {[kind |-> "outside", val |-> j] : j \in Junk}
        ELSE {[kind |-> "value", val |-> At(At(arr, index_surface_element), k)]}

\* the element read with the index tested against the capacity of the arrays
ElementRead_capacity(arr, index_surface_element, element) ==
  IF index_surface_element >= MAX_ELEMENTS \/ element >= cube_dimension
    THEN {[kind |-> "out_of_range", val |-> 0]}
  ELSE
    LET k == element + (DIM - cube_dimension)
    IN  IF index_surface_element < 0 \/ k < 0
          THEN {[kind |-> "outside", val |-> j] : j \in Junk}
        ELSE {[kind |-> "value", val |-> At(At(arr, index_surface_element), k)]}

\* the read of Cornelius::get_centroid_element / get_normal_element on the
\* array arr: the result is the set of outcomes [kind, val]; an index outside
\* the array or outside a row is an out-of-bounds read
ElementRead(arr, index_surface_element, element) ==
  IF index_surface_element >= number_elements \/ element >= cube_dimension
    THEN {[kind |-> "out_of_range", val |-> 0]}
  ELSE
    LET k == element + (DIM - cube_dimension)
    IN  IF index_surface_element < 0 \/ k < 0
          THEN {[kind |-> "outside", val |-> j] : j \in Junk}
        ELSE {[kind |-> "value", val |-> At(At(arr, index_surface_element), k)]}

\* normals[i] = ..., centroids[i] = ... for i < n in the loops of the queries
StoreRows(arr, rows) ==
  Tup([i \in 1..MAX_ELEMENTS |-> IF i <= Len(rows) THEN rows[i] ELSE arr[i]])

\* what a caller can read after a query: the element count and the rows
Observed ==
  [dim |-> lastq.dim, cell |-> lastq.cell, ne |-> number_elements,
   normals |-> BulkRows(normals), centroids |-> BulkRows(centroids)]

\* bookkeeping of a find_surface call on the cell cu that returned
NoteQuery(d, cu) ==
  /\ nq' = nq + 1
  /\ lastq' = [dim |-> d, cell |-> cu, value |-> value, dx |-> dx,
               ok |-> TRUE]
  /\ prevq' = IF lastq.ok THEN Observed ELSE NoPrev
  /\ ret' = NoRet

\* std::cerr << ...; exit(1): why names the message, d the dimension in it
NoErr == [why |-> "none", dim |-> 0]
Exit(why, d) == pc' = "exited" /\ err' = [why |-> why, dim |-> d]

------------------------------------------------------------------------------
(* Bounds and inputs *)

\* at most MaxQueries find_surface calls in one behaviour
MaxQueries == 2

\* the accessors are called with element indices -1 .. MaxIdx
MaxIdx == 1

Idx == (0 - 1)..MaxIdx
Comp == (0 - 1)..DIM

\* grid spacings handed to init_cornelius
DxUnit == <<Scale, Scale, Scale, Scale>>
DxWide == <<2 * Scale, Scale, Scale, 2 * Scale>>

\* the threshold 0.5
Half == FieldScale \div 2

\* init_cornelius calls: dimension, threshold, spacing (5 is no dimension)
InitArgs ==
  {<<2, Half, DxUnit>>, <<3, Half, DxUnit>>, <<4, Half, DxUnit>>,
   <<5, Half, DxUnit>>}

\* corner values of the cells of the facade runs, as offsets from the
\* threshold: L below, H above
L == 0 - Half
H == Half

Pat2 ==
  {<<L, L, L, L>>, <<H, H, H, H>>, <<L, L, H, H>>, <<L, H, H, L>>}

Pat3 ==
  {<<L, L, L, L, L, L, L, L>>, <<H, H, H, H, H, H, H, H>>,
   <<L, H, H, H, H, H, H, H>>, <<L, H, H, H, H, H, H, L>>,
   <<L, H, H, L, H, L, L, H>>}

Pat4 ==
  {<<L, L, L, L, L, L, L, L, L, L, L, L, L, L, L, L>>,
   <<L, H, H, H, H, H, H, H, H, H, H, H, H, H, H, H>>,
   <<L, H, H, L, H, H, H, H, H, H, H, H, H, H, H, H>>}

Shift(f, v) == Tup([i \in 1..Len(f) |-> f[i] + v])

------------------------------------------------------------------------------
(* The cell computations of the queries *)

\* the spacing stored by init_cornelius: 1 in the leading DIM - dimension
\* directions, new_dx in the others
DxOf(dimension, new_dx) ==
  Vec4(LAMBDA i : IF i < DIM - dimension THEN Scale
                  ELSE At(new_dx, i - (DIM - dimension)))

\* find_surface_2d on the cell cu: the square after init_square and
\* construct_lines, and the rows it delivers
Run2(cu, new_dx, value0) ==
  With(construct_lines(init_square(cu, <<0, 1>>, <<0, 0>>, new_dx), value0),
       LAMBDA sq :
    [obj |-> sq,
     normals |-> Tup([i \in 1..sq.number_lines |-> LineNormal(sq.lines[i])]),
     centroids |-> Tup([i \in 1..sq.number_lines |->
                          LineCentroid(sq.lines[i])])])

\* surface_3d past its pre-check, k = <<cube_3d, cu, dx, value>>: the cube
\* after init_cube and construct_polygons, and the rows it delivers
Run3Direct(k) ==
  With(construct_polygons(init_cube(k[1], k[2], 0, 0, k[3]), k[4]), LAMBDA c :
    [obj |-> c,
     normals |-> IF c.fatal THEN <<>>
                 ELSE Tup([i \in 1..c.number_polygons |->
                             PolygonNormal(c.polygons[i])]),
     centroids |-> IF c.fatal THEN <<>>
                   ELSE Tup([i \in 1..c.number_polygons |->
                               PolygonCentroid(c.polygons[i])])])

\* find_surface_4d past its pre-check, k = <<cube_4d, cu, dx, value>>
Run4Direct(k) ==
  With(construct_polyhedra(init_hypercube(k[1], k[2], k[3]), k[4]), LAMBDA h :
    [obj |-> h,
     normals |-> IF h.fatal THEN <<>>
                 ELSE Tup([i \in 1..h.number_polyhedra |->
                             PolyhedronNormal(h.polyhedra[i])]),
     centroids |-> IF h.fatal THEN <<>>
                   ELSE Tup([i \in 1..h.number_polyhedra |->
                               PolyhedronCentroid(h.polyhedra[i])])])

\* Run3Direct and Run4Direct tabulated for the calls of the facade runs: a
\* new object or one left by an earlier call, each cell, each setting
Mixed(f) == \E i, j \in 1..Len(f) : f[i] < 0 /\ f[j] >= 0

Calls3 ==
  {<<Cell3(Shift(f, a[2])), DxOf(a[1], a[3]), a[2]>> :
     f \in {g \in Pat3 : Mixed(g)}, a \in {b \in InitArgs : b[1] = 3}}

Calls4 ==
  {<<Cell4(Shift(f, a[2])), DxOf(a[1], a[3]), a[2]>> :
     f \in {g \in Pat4 : Mixed(g)}, a \in {b \in InitArgs : b[1] = 4}}

Keys3 ==
  {<<NewCube, c[1], c[2], c[3]>> : c \in Calls3}
  \cup {<<Run3Direct(<<NewCube, b[1], b[2], b[3]>>).obj, c[1], c[2], c[3]>> :
          b \in Calls3, c \in Calls3}

Keys4 ==
  {<<NewHypercube, c[1], c[2], c[3]>> : c \in Calls4}
  \cup {<<Run4Direct(<<NewHypercube, b[1], b[2], b[3]>>).obj, c[1], c[2], c[3]>> :
          b \in Calls4, c \in Calls4}

Memo3 == [k \in Keys3 |-> Run3Direct(k)] @@ <<>>
Memo4 == [k \in Keys4 |-> Run4Direct(k)] @@ <<>>

Run3(k) == IF k \in DOMAIN Memo3 THEN Memo3[k] ELSE Run3Direct(k)
Run4(k) == IF k \in DOMAIN Memo4 THEN Memo4[k] ELSE Run4Direct(k)

------------------------------------------------------------------------------
(* Operations of Cornelius *)

\* the test that leads the queries to their exit(1)
NotInitializedFor_and(d) == ~initialized /\ cube_dimension # d

NotInitializedFor(d) == ~initialized \/ cube_dimension # d

\* the early return of surface_3d / find_surface_4d
ReturnNoElements_stale(d, cu) ==
  /\ UNCHANGED number_elements
  /\ NoteQuery(d, cu)
  /\ UNCHANGED <<normals, centroids, pc, err, who, other>>

\* the early return with number_elements a static member, one for all objects
ReturnNoElements_static(d, cu) ==
  /\ number_elements' = 0
  /\ NoteQuery(d, cu)
  /\ other' = [other EXCEPT !.number_elements = 0]
  /\ UNCHANGED <<normals, centroids, pc, err, who>>

ReturnNoElements(d, cu) ==
  /\ number_elements' = 0
  /\ NoteQuery(d, cu)
  /\ UNCHANGED <<normals, centroids, pc, err, who, other>>

\* Cornelius::Cornelius: the members of a constructed object, with the calls
\* made on it so far
NewCornelius ==
  [initialized |-> FALSE, cube_dimension |-> 0, value |-> 0, dx |-> ZeroVec,
   number_elements |-> 0,
   normals |-> Tup([i \in 1..MAX_ELEMENTS |-> Uninit]),
   centroids |-> Tup([i \in 1..MAX_ELEMENTS |-> Uninit]),
   cube_2d |-> NewSquare, cube_3d |-> NewCube, cube_4d |-> NewHypercube,
   nq |-> 0, lastq |-> NoQuery, prevq |-> NoPrev]

\* no cell of the grid scanned yet
NoScan == [done |-> FALSE, cube |-> <<>>, intersect |-> FALSE,
           called |-> FALSE, written |-> 0]

\* no SurfaceCellInfo compared yet
NoComparison == [lhs |-> <<>>, rhs |-> <<>>, result |-> FALSE, done |-> FALSE]

\* two constructed Cornelius objects, the calls are made on the first
Init ==
  /\ initialized = FALSE
  /\ cube_dimension = 0
  /\ value = 0
  /\ dx = ZeroVec
  /\ number_elements = 0
  /\ normals = Tup([i \in 1..MAX_ELEMENTS |-> Uninit])
  /\ centroids = Tup([i \in 1..MAX_ELEMENTS |-> Uninit])
  /\ cube_2d = NewSquare
  /\ cube_3d = NewCube
  /\ cube_4d = NewHypercube
  /\ pc = "ready"
  /\ err = NoErr
  /\ ret = NoRet
  /\ nq = 0
  /\ lastq = NoQuery
  /\ prevq = NoPrev
  /\ who = "A"
  /\ other = NewCornelius
  /\ compared = NoComparison
  /\ scan = NoScan

\* Cornelius::init_cornelius
init_cornelius(dimension, new_value, new_dx) ==
  /\ pc = "ready"
  /\ nq = 0
  /\ cube_dimension' = dimension
  /\ value' = new_value
  /\ IF dimension > DIM \/ dimension < 2
       THEN /\ Exit("dimension", dimension)
            /\ UNCHANGED <<dx, initialized>>
     ELSE /\ dx' = DxOf(dimension, new_dx)
          /\ initialized' = TRUE
          /\ UNCHANGED <<pc, err>>
  /\ ret' = NoRet
  /\ UNCHANGED <<number_elements, normals, centroids, cube_2d, cube_3d,
                 cube_4d, nq, lastq, prevq, who, other, compared, scan>>

\* Cornelius::find_surface_2d
find_surface_2d(cu) ==
  /\ pc = "ready"
  /\ nq < MaxQueries
  /\ IF NotInitializedFor(2)
       THEN /\ Exit("not_initialized", 2)
            /\ ret' = NoRet
            /\ UNCHANGED <<nq, lastq, prevq>>
            /\ UNCHANGED <<number_elements, normals, centroids, cube_2d>>
     ELSE
       \E r \in {Run2(cu, dx, value)} :
           /\ cube_2d' = r.obj
           /\ IF r.obj.fatal
                THEN /\ Exit("number_cuts", 2)
                     /\ ret' = NoRet
                     /\ UNCHANGED <<nq, lastq, prevq>>
                     /\ UNCHANGED <<number_elements, normals, centroids>>
              ELSE /\ number_elements' = r.obj.number_lines
                   /\ normals' = StoreRows(normals, r.normals)
                   /\ centroids' = StoreRows(centroids, r.centroids)
                   /\ NoteQuery(2, cu)
                   /\ UNCHANGED <<pc, err>>
  /\ UNCHANGED <<initialized, cube_dimension, value, dx, cube_3d, cube_4d,
                 who, other, compared, scan>>

\* the corner count with a corner equal to the threshold not counted
value_greater_strict(flat) ==
  Cardinality({i \in 1..Len(flat) : flat[i] > value})

\* the corner count of surface_3d / find_surface_4d
value_greater(flat) == Cardinality({i \in 1..Len(flat) : flat[i] >= value})

Flat3(cu) ==
  <<cu[1][1][1], cu[1][1][2], cu[1][2][1], cu[1][2][2],
    cu[2][1][1], cu[2][1][2], cu[2][2][1], cu[2][2][2]>>

\* Cornelius::find_surface_3d, which is surface_3d without printing
find_surface_3d(cu) ==
  /\ pc = "ready"
  /\ nq < MaxQueries
  /\ IF NotInitializedFor(3)
       THEN /\ Exit("not_initialized", 3)
            /\ ret' = NoRet
            /\ UNCHANGED <<nq, lastq, prevq>>
            /\ UNCHANGED <<number_elements, normals, centroids, cube_3d>>
            /\ UNCHANGED <<who, other>>
     ELSE IF value_greater(Flat3(cu)) = 0 \/ value_greater(Flat3(cu)) = 8
       THEN /\ ReturnNoElements(3, cu)
            /\ UNCHANGED cube_3d
     ELSE
       \E r \in {Run3(<<cube_3d, cu, dx, value>>)} :
           /\ cube_3d' = r.obj
           /\ UNCHANGED <<who, other>>
           /\ IF r.obj.fatal
                THEN /\ Exit("number_lines", 3)
                     /\ ret' = NoRet
                     /\ UNCHANGED <<nq, lastq, prevq>>
                     /\ UNCHANGED <<number_elements, normals, centroids>>
              ELSE /\ number_elements' = r.obj.number_polygons
                   /\ normals' = StoreRows(normals, r.normals)
                   /\ centroids' = StoreRows(centroids, r.centroids)
                   /\ NoteQuery(3, cu)
                   /\ UNCHANGED <<pc, err>>
  /\ UNCHANGED <<initialized, cube_dimension, value, dx, cube_2d, cube_4d,
                 compared>>

\* Cornelius::find_surface_4d
find_surface_4d(cu) ==
  /\ pc = "ready"
  /\ nq < MaxQueries
  /\ IF NotInitializedFor(4)
       THEN /\ Exit("not_initialized", 4)
            /\ ret' = NoRet
            /\ UNCHANGED <<nq, lastq, prevq>>
            /\ UNCHANGED <<number_elements, normals, centroids, cube_4d>>
            /\ UNCHANGED <<who, other>>
     ELSE IF value_greater(Flat3(cu[1]) \o Flat3(cu[2])) = 0
             \/ value_greater(Flat3(cu[1]) \o Flat3(cu[2])) = 16
       THEN /\ ReturnNoElements(4, cu)
            /\ UNCHANGED cube_4d
     ELSE
       \E r \in {Run4(<<cube_4d, cu, dx, value>>)} :
           /\ cube_4d' = r.obj
           /\ UNCHANGED <<who, other>>
           /\ IF r.obj.fatal
                THEN /\ Exit("number_lines", 4)
                     /\ ret' = NoRet
                     /\ UNCHANGED <<nq, lastq, prevq>>
                     /\ UNCHANGED <<number_elements, normals, centroids>>
              ELSE /\ number_elements' = r.obj.number_polyhedra
                   /\ normals' = StoreRows(normals, r.normals)
                   /\ centroids' = StoreRows(centroids, r.centroids)
                   /\ NoteQuery(4, cu)
                   /\ UNCHANGED <<pc, err>>
  /\ UNCHANGED <<initialized, cube_dimension, value, dx, cube_2d, cube_3d,
                 compared, scan>>

\* the accessors change nothing but what the caller receives
Returns(r) ==
  /\ pc = "ready"
  /\ ret' = r
  /\ UNCHANGED <<initialized, cube_dimension, value, dx, number_elements,
                 normals, centroids, cube_2d, cube_3d, cube_4d, pc, err, nq,
                 lastq, prevq, who, other, compared, scan>>

\* Cornelius::get_number_elements
get_number_elements ==
  Returns([NoRet EXCEPT !.op = "get_number_elements", !.kind = "value",
                        !.val = number_elements])

\* Cornelius::get_normals
get_normals ==
  Returns([NoRet EXCEPT !.op = "get_normals", !.kind = "rows",
                        !.rows = BulkRows(normals)])

\* Cornelius::get_centroids
get_centroids ==
  Returns([NoRet EXCEPT !.op = "get_centroids", !.kind = "rows",
                        !.rows = BulkRows(centroids)])

\* Cornelius::get_centroid_element
get_centroid_element(index_surface_element, element_centroid) ==
  \E o \in ElementRead(centroids, index_surface_element, element_centroid) :
    Returns([NoRet EXCEPT !.op = "get_centroid_element",
                          !.i = index_surface_element, !.c = element_centroid,
                          !.kind = o.kind, !.val = o.val])

\* Cornelius::get_normal_element
get_normal_element(index_surface_element, element_normal) ==
  \E o \in ElementRead(normals, index_surface_element, element_normal) :
    Returns([NoRet EXCEPT !.op = "get_normal_element",
                          !.i = index_surface_element, !.c = element_normal,
                          !.kind = o.kind, !.val = o.val])

CallInit == \E a \in InitArgs : init_cornelius(a[1], a[2], a[3])
Call2d == \E f \in Pat2 : find_surface_2d(Cell2(Shift(f, value)))
Call3d ==
  /\ \E f \in Pat3 : find_surface_3d(Cell3(Shift(f, value)))
  /\ UNCHANGED scan
Call4d == \E f \in Pat4 : find_surface_4d(Cell4(Shift(f, value)))
CallCentroidElement == \E i \in Idx, c \in Comp : get_centroid_element(i, c)
CallNormalElement == \E i \in Idx, c \in Comp : get_normal_element(i, c)

Next ==
  \/ CallInit
  \/ Call2d
  \/ Call3d
  \/ Call4d
  \/ get_number_elements
  \/ get_normals
  \/ get_centroids
  \/ CallCentroidElement
  \/ CallNormalElement

Spec == Init /\ [][Next]_vars

------------------------------------------------------------------------------
(* Two Cornelius objects *)

\* calls on each of the two objects
MaxCallsEach == 1

\* the members of the object the calls are made on
This ==
  [initialized |-> initialized, cube_dimension |-> cube_dimension,
   value |-> value, dx |-> dx, number_elements |-> number_elements,
   normals |-> normals, centroids |-> centroids,
   cube_2d |-> cube_2d, cube_3d |-> cube_3d, cube_4d |-> cube_4d,
   nq |-> nq, lastq |-> lastq, prevq |-> prevq]

\* the caller turns to the other object: its members are the ones the next
\* calls read and write
Switch ==
  /\ pc = "ready"
  /\ who' = IF who = "A" THEN "B" ELSE "A"
  /\ other' = This
  /\ initialized' = other.initialized
  /\ cube_dimension' = other.cube_dimension
  /\ value' = other.value
  /\ dx' = other.dx
  /\ number_elements' = other.number_elements
  /\ normals' = other.normals
  /\ centroids' = other.centroids
  /\ cube_2d' = other.cube_2d
  /\ cube_3d' = other.cube_3d
  /\ cube_4d' = other.cube_4d
  /\ nq' = other.nq
  /\ lastq' = other.lastq
  /\ prevq' = other.prevq
  /\ ret' = NoRet
  /\ UNCHANGED <<pc, err, compared, scan>>

Each2d == nq < MaxCallsEach /\ Call2d
Each3d == nq < MaxCallsEach /\ Call3d
Each4d == nq < MaxCallsEach /\ Call4d

NextTwo ==
  \/ CallInit
  \/ Each2d
  \/ Each3d
  \/ Each4d
  \/ get_number_elements
  \/ Switch

SpecTwo == Init /\ [][NextTwo]_vars

------------------------------------------------------------------------------
(* SurfaceCellInfo *)

\* the number of scalar data members of SurfaceCellInfo, array elements counted
NMEMBERS == 32

\* a SurfaceCellInfo whose scalars are, in the order of declaration, f[1]..f[32]
SurfaceCellInfo(f) ==
  [tau |-> f[1], x |-> f[2], y |-> f[3], eta |-> f[4],
   d3sigma_mu |-> <<f[5], f[6], f[7], f[8]>>,
   energy_density |-> f[9], entropy_density |-> f[10], temperature |-> f[11],
   pressure |-> f[12], baryon_density |-> f[13], qgp_fraction |-> f[14],
   mu_B |-> f[15], mu_Q |-> f[16], mu_S |-> f[17],
   umu |-> <<f[18], f[19], f[20], f[21]>>,
   pi |-> <<f[22], f[23], f[24], f[25], f[26], f[27], f[28], f[29], f[30],
            f[31]>>,
   bulk_Pi |-> f[32]]

\* SurfaceCellInfo::operator==
InfoEquals(a, b) ==
  /\ a.tau = b.tau /\ a.x = b.x /\ a.y = b.y /\ a.eta = b.eta
  /\ a.d3sigma_mu[1] = b.d3sigma_mu[1] /\ a.d3sigma_mu[2] = b.d3sigma_mu[2]
  /\ a.d3sigma_mu[3] = b.d3sigma_mu[3] /\ a.d3sigma_mu[4] = b.d3sigma_mu[4]
  /\ a.energy_density = b.energy_density
  /\ a.entropy_density = b.entropy_density
  /\ a.temperature = b.temperature /\ a.pressure = b.pressure
  /\ a.qgp_fraction = b.qgp_fraction /\ a.mu_B = b.mu_B
  /\ a.mu_Q = b.mu_Q /\ a.mu_S = b.mu_S
  /\ a.umu[1] = b.umu[1] /\ a.umu[2] = b.umu[2]
  /\ a.umu[3] = b.umu[3] /\ a.umu[4] = b.umu[4]
  /\ a.pi[1] = b.pi[1] /\ a.pi[2] = b.pi[2] /\ a.pi[3] = b.pi[3]
  /\ a.pi[4] = b.pi[4] /\ a.pi[5] = b.pi[5] /\ a.pi[6] = b.pi[6]
  /\ a.pi[7] = b.pi[7] /\ a.pi[8] = b.pi[8] /\ a.pi[9] = b.pi[9]
  /\ a.pi[10] = b.pi[10] /\ a.bulk_Pi = b.bulk_Pi

\* the objects compared: every scalar equal to base, but those in the set d,
\* which hold base + 1
InfoWith(base, d) ==
  SurfaceCellInfo([i \in 1..NMEMBERS |-> IF i \in d THEN base + 1 ELSE base])

\* a caller fills two SurfaceCellInfo objects that differ in no, one or two
\* scalars (i, j; 0 is none) and compares them
CompareInfos ==
  /\ ~compared.done
  /\ \E base \in {0, 1}, i \in 0..NMEMBERS, j \in 0..NMEMBERS :
       \E d \in {({i, j} \ {0})} :
         compared' = [lhs |-> InfoWith(base, {}), rhs |-> InfoWith(base, d),
                      result |-> InfoEquals(InfoWith(base, {}),
                                            InfoWith(base, d)),
                      done |-> TRUE]
  /\ UNCHANGED <<initialized, cube_dimension, value, dx, number_elements,
                 normals, centroids, cube_2d, cube_3d, cube_4d, pc, err,
                 ret, nq, lastq, prevq, who, other, scan>>

NextInfo == CompareInfos

SpecInfo == Init /\ [][NextInfo]_vars

------------------------------------------------------------------------------
(* The queries on whole families of cells *)

\* corner values as offsets from the threshold: far below, below, equal,
\* above, far above
Near == Half
Far == 3 * Half

Signs(n) == [1..n -> {0 - 1, 1}]
Weights(n) == [1..n -> {Near, Far}]
Times(s, w) == Tup([i \in 1..Len(s) |-> s[i] * w[i]])
Count(f, x) == Cardinality({i \in 1..Len(f) : f[i] = x})

\* the two colourings of the corners of a cube in which neighbours differ
Checker3 == {<<0 - 1, 1, 1, 0 - 1, 1, 0 - 1, 0 - 1, 1>>,
             <<1, 0 - 1, 0 - 1, 1, 0 - 1, 1, 1, 0 - 1>>}

UniformNear(n) == Tup([i \in 1..n |-> Near])
FirstHalfFar(n) == Tup([i \in 1..n |-> IF 2 * i <= n THEN Far ELSE Near])
EvenFar(n) == Tup([i \in 1..n |-> IF i % 2 = 0 THEN Far ELSE Near])

\* 2-D: every cell with corner offsets among the five
Big2 ==
  {<<a, b, c, d>> : a \in {0 - Far, 0 - Near, 0, Near, Far},
                    b \in {0 - Far, 0 - Near, 0, Near, Far},
                    c \in {0 - Far, 0 - Near, 0, Near, Far},
                    d \in {0 - Far, 0 - Near, 0, Near, Far}}

\* a corner value just above the threshold, and the distance from the
\* threshold of the other corners of its cell: the cut between the two lies
\* Tiny / (Tiny + Deep) of the edge from the corner, within EPSILON of it
Tiny == 1
Deep == Scale - 1

\* 3-D: two corners just above the threshold, the 6 others far from it on
\* either side
Grazing3 ==
  {Tup([i \in 1..8 |-> IF s[i] = 0 THEN Tiny ELSE s[i] * Deep]) :
     s \in {t \in [1..8 -> {0 - 1, 0, 1}] : Count(t, 0) = 2}}

\* 3-D: one corner below with every weighting; the checkerboards with every
\* weighting; every sign pattern with three weightings; every pattern with
\* one or two corners on the threshold; the cells with two corners just
\* above the threshold
Big3 ==
  {Times(s, w) : s \in {t \in Signs(8) : Count(t, 0 - 1) = 1}, w \in Weights(8)}
  \cup {Times(s, w) : s \in Checker3, w \in Weights(8)}
  \cup {Times(s, w) : s \in Signs(8),
                      w \in {UniformNear(8), FirstHalfFar(8), EvenFar(8)}}
  \cup {Times(s, UniformNear(8)) :
          s \in {t \in [1..8 -> {0 - 1, 0, 1}] : Count(t, 0) \in {1, 2}}}
  \cup Grazing3

\* the sign patterns of the 16 corners with two opposite corners on one
\* side and the 14 others on the other side
Opposite4 ==
  {Tup([i \in 1..16 |-> IF i \in {a, 17 - a} THEN sg ELSE 0 - sg]) :
     a \in 1..8, sg \in {0 - 1, 1}}

\* the sign patterns with corner (0,0,0,0) and the corner across one of the
\* 6 squares that meet there on one side and the 14 others on the other side
FaceDiagonal4 ==
  {Tup([i \in 1..16 |-> IF i \in {1, b} THEN sg ELSE 0 - sg]) :
     b \in {4, 6, 7, 10, 11, 13}, sg \in {0 - 1, 1}}

\* 4-D: one corner below, one corner above, two opposite corners below or
\* above, two corners across a square below or above
Big4 ==
  {Times(s, UniformNear(16)) :
     s \in {t \in Signs(16) : Count(t, 0 - 1) = 1 \/ Count(t, 1) = 1}
           \cup Opposite4 \cup FaceDiagonal4}

\* the facade initialised for one dimension with one spacing
CellInits ==
  {<<2, Half, DxUnit>>, <<2, Half, DxWide>>, <<3, Half, DxUnit>>,
   <<3, Half, DxWide>>, <<4, Half, DxUnit>>}

InitCell ==
  \E a \in CellInits :
    /\ initialized = TRUE
    /\ cube_dimension = a[1]
    /\ value = a[2]
    /\ dx = DxOf(a[1], a[3])
    /\ number_elements = 0
    /\ normals = Tup([i \in 1..MAX_ELEMENTS |-> Uninit])
    /\ centroids = Tup([i \in 1..MAX_ELEMENTS |-> Uninit])
    /\ cube_2d = NewSquare
    /\ cube_3d = NewCube
    /\ cube_4d = NewHypercube
    /\ pc = "ready"
    /\ err = NoErr
    /\ ret = NoRet
    /\ nq = 0
    /\ lastq = NoQuery
    /\ prevq = NoPrev
    /\ who = "A"
    /\ other = NewCornelius
    /\ compared = NoComparison
    /\ scan = NoScan

Cell2d ==
  /\ nq = 0 /\ cube_dimension = 2
  /\ \E f \in Big2 : find_surface_2d(Cell2(Shift(f, value)))

Cell3d ==
  /\ nq = 0 /\ cube_dimension = 3
  /\ \E f \in Big3 : find_surface_3d(Cell3(Shift(f, value)))
  /\ UNCHANGED scan

Cell4d ==
  /\ nq = 0 /\ cube_dimension = 4
  /\ \E f \in Big4 : find_surface_4d(Cell4(Shift(f, value)))

NextCell == Cell2d \/ Cell3d \/ Cell4d

SpecCell == InitCell /\ [][NextCell]_vars

------------------------------------------------------------------------------
(* Properties of the facade *)

\* the corner values of the last queried cell, in one row
FlatCell(q) ==
  IF q.dim = 2 THEN q.cell[1] \o q.cell[2]
  ELSE IF q.dim = 3 THEN Flat3(q.cell)
  ELSE Flat3(q.cell[1]) \o Flat3(q.cell[2])

\* every corner strictly above the threshold, or every corner strictly below
Uncrossed(q) ==
  \/ \A i \in 1..Len(FlatCell(q)) : FlatCell(q)[i] > q.value
  \/ \A i \in 1..Len(FlatCell(q)) : FlatCell(q)[i] < q.value

ElementOps == {"get_centroid_element", "get_normal_element"}

Thrown == {[kind |-> "out_of_range", val |-> 0]}

\* C1: in every dimension and after any earlier queries, once a query on a
\* cell whose corners are all strictly above or all strictly below the
\* threshold has returned, the element count is 0, and get_number_elements
\* returns 0.
C1_UncrossedCellHasNoElements ==
  (lastq.ok /\ Uncrossed(lastq)) =>
    /\ number_elements = 0
    /\ (ret.op = "get_number_elements" => ret.val = 0)

\* an uncrossed 4-D query after a query that found elements, then read
C1_Witness ==
  /\ lastq.ok /\ Uncrossed(lastq) /\ lastq.dim = 4
  /\ prevq.ne >= 1
  /\ ret.op = "get_number_elements"

\* C2: a find_surface call on an object that is not initialised, or is
\* initialised for another dimension than the call's, exits before the
\* element count, a centroid or a normal is written; a call that returns was
\* made for the initialised dimension, and the exit for a missing
\* initialisation is never taken by a call of the initialised dimension.
C2_MismatchedQueryIsFatal ==
  [][/\ (err'.why = "not_initialized" /\ err.why = "none") =>
          /\ NotInitializedFor(err'.dim)
          /\ pc' = "exited"
          /\ UNCHANGED <<number_elements, normals, centroids>>
     /\ (nq' = nq + 1) =>
          /\ initialized /\ cube_dimension = lastq'.dim
          /\ pc' = "ready"]_vars

\* a 4-D query on an object initialised for 3-D has exited
C2_Witness ==
  /\ pc = "exited" /\ err.why = "not_initialized" /\ err.dim = 4
  /\ initialized /\ cube_dimension = 3

\* C3: get_centroid_element and get_normal_element throw out_of_range
\* whenever the index is at least the element count or the component is at
\* least the dimension, and then the element count, the centroids and the
\* normals are unchanged.
C3_OutOfRangeThrows ==
  [][(/\ ret'.op \in ElementOps
      /\ (ret'.i >= number_elements \/ ret'.c >= cube_dimension)) =>
        /\ ret'.kind = "out_of_range"
        /\ UNCHANGED <<number_elements, normals, centroids>>]_vars

\* an index equal to the count of a crossed cell was refused
C3_Witness ==
  /\ ret.op \in ElementOps /\ ret.kind = "out_of_range"
  /\ number_elements >= 1 /\ ret.i = number_elements
  /\ ret.c >= 0 /\ ret.c < cube_dimension

\* C4: find_surface_3d called twice in a row on the same corner values
\* leaves the same element count, the same centroids and the same normals
\* the second time as the first.
C4_Query3dIdempotent ==
  (lastq.ok /\ lastq.dim = 3 /\ prevq.dim = 3 /\ prevq.cell = lastq.cell) =>
    /\ number_elements = prevq.ne
    /\ BulkRows(normals) = prevq.normals
    /\ BulkRows(centroids) = prevq.centroids

\* the same crossed cell with several polygons was queried twice
C4_Witness ==
  /\ lastq.ok /\ lastq.dim = 3 /\ prevq.dim = 3 /\ prevq.cell = lastq.cell
  /\ number_elements >= 2

\* C5: when a query that found elements is followed by a query on an
\* uncrossed cell, the element count is 0 and every call of
\* get_centroid_element / get_normal_element with an index >= 0 throws
\* out_of_range.
C5_CountDescribesLastQuery ==
  (lastq.ok /\ Uncrossed(lastq) /\ prevq.ne >= 1) =>
    /\ number_elements = 0
    /\ \A i \in 0..MaxIdx, c \in Comp :
         /\ ElementRead(centroids, i, c) = Thrown
         /\ ElementRead(normals, i, c) = Thrown
    /\ (ret.op \in ElementOps /\ ret.i >= 0) => ret.kind = "out_of_range"

\* element 0 of the earlier result was asked for and refused
C5_Witness ==
  /\ lastq.ok /\ Uncrossed(lastq) /\ prevq.ne >= 1
  /\ ret.op = "get_centroid_element" /\ ret.i = 0 /\ ret.c = 0
  /\ ret.kind = "out_of_range"

\* the rows agree with what the element accessor delivers from arr
RowsMatchElements(rows, arr) ==
  /\ Len(rows) = number_elements
  /\ \A i \in 1..number_elements :
       /\ Len(rows[i]) = cube_dimension
       /\ \A c \in 0..(cube_dimension - 1) :
            ElementRead(arr, i - 1, c) = {[kind |-> "value", val |-> rows[i][c + 1]]}

\* C6: get_normals and get_centroids return number_elements rows of
\* `dimension` components each, and row i, component c is what
\* get_normal_element(i, c) / get_centroid_element(i, c) returns.
C6_BulkRowsAreElements ==
  /\ ret.op = "get_normals" => RowsMatchElements(ret.rows, normals)
  /\ ret.op = "get_centroids" => RowsMatchElements(ret.rows, centroids)

\* get_normals returned several rows of a 3-D result
C6_Witness ==
  ret.op = "get_normals" /\ Len(ret.rows) >= 2 /\ cube_dimension = 3

------------------------------------------------------------------------------
(* Properties of the surface elements of one cell *)

\* how many corners of the row f lie strictly below / above the threshold v
Below(f, threshold) == Cardinality({i \in 1..Len(f) : f[i] < threshold})
Above(f, threshold) == Cardinality({i \in 1..Len(f) : f[i] > threshold})

\* the cell held by cube_3d has one corner below the threshold and the other
\* seven above it
OneCornerBelow ==
  /\ cube_dimension = 3
  /\ Below(Flat3(cube_3d.cube), value) = 1
  /\ Above(Flat3(cube_3d.cube), value) = 7

\* C7: find_surface_3d on a cell with exactly one corner below the threshold
\* and seven above returns with exactly one Polygon, that Polygon has exactly
\* 3 lines, and every coordinate of its centroid lies between 0 and the grid
\* spacing of its direction.
C7_OneCornerGivesOneTriangle ==
  OneCornerBelow =>
    /\ pc = "ready"
    /\ lastq.ok /\ lastq.cell = cube_3d.cube
    /\ number_elements = 1
    /\ cube_3d.number_polygons = 1
    /\ Len(cube_3d.polygons[1].lines) = 3
    /\ \A k \in 1..DIM : centroids[1][k] >= 0 /\ centroids[1][k] <= dx[k]
    /\ \A k \in 1..3 : BulkRows(centroids)[1][k] >= 0
                       /\ BulkRows(centroids)[1][k] <= dx[k + 1]

\* such a cell with unequal spacings and a corner far above the threshold
C7_Witness ==
  /\ OneCornerBelow /\ number_elements = 1
  /\ At(dx, 1) = 2 * Scale
  /\ \E i \in 1..8 : Flat3(cube_3d.cube)[i] = value + Far

\* the corners of the cell held by cube_3d alternate around the threshold:
\* corners joined by an edge lie strictly on opposite sides
Checkerboard ==
  /\ cube_dimension = 3
  /\ \E s \in Checker3 :
       \A i \in 1..8 : /\ s[i] < 0 => Flat3(cube_3d.cube)[i] < value
                       /\ s[i] > 0 => Flat3(cube_3d.cube)[i] > value

Edges2 ==
  LET p == lastq.cell
  IN  {<<p[1][1], p[2][1], <<0, 0>>, 1>>, <<p[1][1], p[1][2], <<0, 0>>, 2>>,
       <<p[2][1], p[2][2], <<1, 0>>, 2>>, <<p[1][2], p[2][2], <<0, 1>>, 1>>}

\* one end of the edge is at or above the threshold and the other below it
Crossed(e) ==
  (e[1] >= lastq.value /\ e[2] < lastq.value)
  \/ (e[2] >= lastq.value /\ e[1] < lastq.value)

\* the point at distance t from the start of edge e, as a 4-vector
PointOn(e, t) ==
  LET d1 == At(lastq.dx, 2)
      d2 == At(lastq.dx, 3)
  IN  IF e[4] = 1 THEN <<0, 0, e[3][1] * d1 + t, e[3][2] * d2>>
      ELSE <<0, 0, e[3][1] * d1, e[3][2] * d2 + t>>

EdgeLen(e) == IF e[4] = 1 THEN At(lastq.dx, 2) ELSE At(lastq.dx, 3)

\* t is the length of the edge times (v_start - threshold) / (v_start - v_end),
\* to the nearest unit of length
Interpolates(e, t) ==
  2 * Abs(t * (e[1] - e[2]) - (e[1] - lastq.value) * EdgeLen(e))
    <= Abs(e[1] - e[2])

\* the 2-D queries in which exactly two edges are crossed
TwoEdgesCrossed ==
  /\ lastq.ok /\ lastq.dim = 2
  /\ Cardinality({e \in Edges2 : Crossed(e)}) = 2

\* the lines of the queried square
OneLine == number_elements = 1 /\ cube_2d.number_lines = 1

LineEnds == {cube_2d.lines[1].start, cube_2d.lines[1].end}

\* C9 as stated: one line, and its two end points are the interpolated cuts
\* of the two crossed edges.
C9_Original ==
  TwoEdgesCrossed =>
    /\ OneLine
    /\ \A e \in {f \in Edges2 : Crossed(f)} :
         \E t \in 0..EdgeLen(e) : PointOn(e, t) \in LineEnds /\ Interpolates(e, t)
    /\ \A pt \in LineEnds :
         \E e \in {f \in Edges2 : Crossed(f)} :
           \E t \in 0..EdgeLen(e) : PointOn(e, t) = pt /\ Interpolates(e, t)

\* the cut of a crossed edge: interpolated when its ends lie strictly on
\* opposite sides of the threshold; ALMOST_ZERO (ALMOST_ONE) of the edge
\* length from the start when the start (end) value equals the threshold
CutOf(e, t) ==
  IF e[1] = lastq.value THEN t = AlmostZero(EdgeLen(e))
  ELSE IF e[2] = lastq.value THEN t = AlmostOne(EdgeLen(e))
  ELSE Interpolates(e, t)

\* C9: when exactly two edges of a 2-D cell have one end at or above the
\* threshold and the other below it, find_surface_2d produces exactly one
\* Line whose end points are the cuts of those two edges; a cut lies at the
\* linear interpolation when the ends of its edge are strictly above and
\* below the threshold, and at ALMOST_ZERO (ALMOST_ONE) of the edge length
\* when the start (end) of the edge equals the threshold.
C9_OneLineAtTheCuts ==
  TwoEdgesCrossed =>
    /\ OneLine
    /\ \A e \in {f \in Edges2 : Crossed(f)} :
         \E t \in 0..EdgeLen(e) : PointOn(e, t) \in LineEnds /\ CutOf(e, t)
    /\ \A pt \in LineEnds :
         \E e \in {f \in Edges2 : Crossed(f)} :
           \E t \in 0..EdgeLen(e) : PointOn(e, t) = pt /\ CutOf(e, t)

\* the spec's square [[0,0],[1,1]] on a grid of unequal spacings
C9_Witness ==
  /\ TwoEdgesCrossed /\ OneLine
  /\ lastq.cell = << <<value - Near, value - Near>>, <<value + Near, value + Near>> >>
  /\ At(dx, 2) = 2 * Scale

\* the lines of element i of the last query: of Polygon i in 3-D, of every
\* Polygon of Polyhedron i in 4-D
LinesOfElement(i) ==
  IF lastq.dim = 3 THEN cube_3d.polygons[i].lines
  ELSE Concat(Tup([j \in 1..cube_4d.polyhedra[i].number_polygons |->
                     cube_4d.polyhedra[i].polygons[j].lines]))

\* the normal of element i does not point towards the outside point of l
PointsAway(i, l) == VDot(normals[i], VSub(l.out, centroids[i])) <= 0

\* C10 as stated: for every element returned by a 3-D or 4-D query and every
\* line of the element, the element's normal dotted with the vector from the
\* element's centroid to the line's outside point is <= 0.
C10_Original ==
  (lastq.ok /\ lastq.dim \in {3, 4}) =>
    \A i \in 1..number_elements :
      \A k \in 1..Len(LinesOfElement(i)) : PointsAway(i, LinesOfElement(i)[k])

\* the normals of the triangles (3-D) or tetrahedra (4-D) that the lines of
\* element i span about the element's centroid, each as it enters the sum
PartsOfElement(i) ==
  IF lastq.dim = 3
    THEN Tup([k \in 1..Len(cube_3d.polygons[i].lines) |->
                TriangleNormal(cube_3d.polygons[i], centroids[i], k)])
  ELSE With(cube_4d.polyhedra[i], LAMBDA ph :
         With(TetIndex(ph), LAMBDA idx :
           Tup([t \in 1..Len(idx) |->
                  TetNormal(ph,
                            Tup([j \in 1..ph.number_polygons |->
                                   PolygonCentroid(ph.polygons[j])]),
                            centroids[i], idx[t][1], idx[t][2])])))

\* C10: the normal of every element returned by a 3-D or 4-D query is the
\* sum, over the lines of the element, of the normal of the triangle (3-D) or
\* tetrahedron (4-D) that the line spans about the element's centroid, and
\* each of these parts, dotted with the vector from the centroid to the
\* outside point of its own line, is <= 0.
C10_PartsPointAway ==
  (lastq.ok /\ lastq.dim \in {3, 4}) =>
    \A i \in 1..number_elements :
      /\ Len(PartsOfElement(i)) = Len(LinesOfElement(i))
      /\ normals[i] = VSum(PartsOfElement(i))
      /\ \A k \in 1..Len(LinesOfElement(i)) :
           VDot(PartsOfElement(i)[k],
                VSub(LinesOfElement(i)[k].out, centroids[i])) <= 0

\* a 3-D element of six lines whose summed normal has a positive product
\* with the outside vector of one of its lines
C10_Witness ==
  /\ lastq.ok /\ lastq.dim = 3 /\ number_elements = 1
  /\ Len(LinesOfElement(1)) = 6
  /\ \E k \in 1..6 : ~PointsAway(1, LinesOfElement(1)[k])

------------------------------------------------------------------------------
(* Properties of two objects *)

\* what a caller can observe of an object with members m
Results(m) ==
  [number_elements |-> m.number_elements,
   normals |-> SubSeq(m.normals, 1, m.number_elements),
   centroids |-> SubSeq(m.centroids, 1, m.number_elements)]

\* C11: a call on one Cornelius object that runs to completion leaves every
\* member of the other object as it was, so what is observed on an object
\* is the result of the calls made on that object alone; turning to the other
\* object finds its members as its own last call left them.
C11_InstancesShareNoState ==
  [][/\ (who' = who /\ pc' = "ready") => other' = other
     /\ (who' # who) => (other' = This /\ This' = other)]_vars

\* the first object holds an element, a query was made on the second one
C11_Witness ==
  /\ who = "B" /\ lastq.ok /\ lastq.dim = 4 /\ number_elements = 0
  /\ other.lastq.ok /\ other.lastq.dim = 3 /\ other.number_elements >= 1

------------------------------------------------------------------------------
(* Growth of the polygons of an ambiguous cube *)

\* the number of lines stored in the first k polygons of the cube c
LinesInFirst(c, k) ==
  ISum(Tup([i \in 1..k |-> Len(c.polygons[i].lines)]))

\* the lines of the cube c that no emitted polygon holds
UnusedLines(c) == c.number_lines - LinesInFirst(c, c.number_polygons)

\* the 3-D query ended in the fatal state of the polygon growth
ExitedOnLines == pc = "exited" /\ err = [dim |-> 3, why |-> "number_lines"]

\* C12: in the ambiguous path of Cube::construct_polygons a polygon is started
\* only when at least 3 collected lines are unused; when a polygon is due
\* (some line is unused) and fewer than 3 are unused, the query ends in the
\* fatal state, the polygon is not counted and no element is stored
C12_TooFewLinesIsFatal ==
  (cube_dimension = 3 /\ cube_3d.ambiguous) =>
    /\ \A k \in 1..cube_3d.number_polygons :
         cube_3d.number_lines - LinesInFirst(cube_3d, k - 1) >= 3
    /\ (UnusedLines(cube_3d) \in 1..2) <=> ExitedOnLines
    /\ ExitedOnLines => (cube_3d.fatal /\ number_elements = 0 /\ ~lastq.ok)
    /\ pc # "exited" => UnusedLines(cube_3d) = 0

C12_Witness ==
  /\ ExitedOnLines /\ cube_3d.ambiguous
  /\ cube_3d.number_polygons = 1
  /\ UnusedLines(cube_3d) \in 1..2

------------------------------------------------------------------------------
(* Comparison of SurfaceCellInfo objects *)

\* C14: SurfaceCellInfo::operator== returns true if and only if every data
\* member of the two objects is equal
C14_EqualsIffAllMembersEqual ==
  compared.done => (compared.result <=> compared.lhs = compared.rhs)

------------------------------------------------------------------------------
(* Cuts and lines of a square *)

\* the square has a corner >= threshold and a corner < threshold
SquareCrossed(s, threshold) == CornerMask(s.points, threshold) \notin {0, 15}

\* the 4 edges of a square as pairs of corner indices, in the order of
\* Square::ends_of_edge
SquareEdges ==
  << << <<1, 1>>, <<2, 1>> >>, << <<1, 1>>, <<1, 2>> >>,
     << <<2, 1>>, <<2, 2>> >>, << <<1, 2>>, <<2, 2>> >> >>

\* the number of edges of the square with one end >= threshold and one below
MixedEdges(s, threshold) ==
  Cardinality({e \in 1..4 :
     (s.points[SquareEdges[e][1][1]][SquareEdges[e][1][2]] >= threshold)
       # (s.points[SquareEdges[e][2][1]][SquareEdges[e][2][2]] >= threshold)})

CutsFit(s, threshold) ==
  SquareCrossed(s, threshold) =>
    /\ s.number_cuts \in {2, 4}
    /\ s.number_cuts = MixedEdges(s, threshold)
    /\ Len(s.cuts) = s.number_cuts
    /\ ~s.fatal

\* C15: a square with a corner >= threshold and a corner < threshold, the
\* corners below, equal to or above the threshold in any combination, gets
\* exactly 2 or 4 cuts, one per edge whose ends are on different sides; the
\* fatal cut-count exit is never taken
C15_CrossedSquareHasTwoOrFourCuts ==
  /\ err.why # "number_cuts"
  /\ (lastq.ok /\ lastq.dim = 2) => CutsFit(cube_2d, value)
  /\ (lastq.ok /\ lastq.dim = 3) =>
       \A i \in 1..NSQUARES : CutsFit(cube_3d.squares[i], value)

C15_Witness ==
  /\ lastq.ok /\ lastq.dim = 2
  /\ cube_2d.points[1][1] = value /\ cube_2d.points[2][2] = value
  /\ cube_2d.points[1][2] < value /\ cube_2d.points[2][1] < value
  /\ cube_2d.number_cuts = 4

LinesFit(s, threshold) ==
  /\ s.number_lines \in {0, 1, 2}
  /\ ~SquareCrossed(s, threshold) => s.number_lines = 0
  /\ SquareCrossed(s, threshold) =>
       (2 * s.number_lines = s.number_cuts /\ Len(s.lines) = s.number_lines)

\* C16 as stated: Square::construct_lines yields 0 or 1 Line for every corner
\* configuration and threshold
C16_Original ==
  /\ (lastq.ok /\ lastq.dim = 2) => cube_2d.number_lines \in {0, 1}
  /\ (lastq.ok /\ lastq.dim = 3) =>
       \A i \in 1..NSQUARES : cube_3d.squares[i].number_lines \in {0, 1}

\* C16, amended: Square::construct_lines yields 0, 1 or 2 lines: none for a
\* square with all corners on one side, one for a square with 2 cuts, two
\* for a square with 4 cuts
C16_LinesAreHalfTheCuts ==
  /\ (lastq.ok /\ lastq.dim = 2) => LinesFit(cube_2d, value)
  /\ (lastq.ok /\ lastq.dim = 3) =>
       \A i \in 1..NSQUARES : LinesFit(cube_3d.squares[i], value)

C16_Witness ==
  /\ lastq.ok /\ lastq.dim = 2
  /\ cube_2d.number_cuts = 4 /\ cube_2d.number_lines = 2
  /\ cube_2d.lines[1] # cube_2d.lines[2]

\* the cuts of the square in the order in which ends_of_edge records them,
\* as points of the cell
RecordedCuts(s, threshold) ==
  With(ends_of_edge([s EXCEPT !.cuts = <<>>, !.number_cuts = 0],
                    threshold).cuts, LAMBDA cs :
    Tup([i \in 1..Len(cs) |-> MkPoint(s, cs[i][1], cs[i][2])]))

\* the two lines of the square join the recorded cuts a, b and c, d
\* (numbered from 0)
PairedAs(s, threshold, a, b, c, d) ==
  With(RecordedCuts(s, threshold), LAMBDA rc :
    /\ s.number_lines = 2
    /\ {s.lines[1].start, s.lines[1].end} = {rc[a + 1], rc[b + 1]}
    /\ {s.lines[2].start, s.lines[2].end} = {rc[c + 1], rc[d + 1]})

\* 4 times the field value at the centre of the square (the sum of the 4
\* corners), to be compared with 4 times the threshold
CentreTimes4(s) ==
  s.points[1][1] + s.points[1][2] + s.points[2][1] + s.points[2][2]

\* the centre and corner (0,0) are both below or both above the threshold
CentreWithCorner(s, threshold) ==
  \/ s.points[1][1] < threshold /\ CentreTimes4(s) < 4 * threshold
  \/ s.points[1][1] > threshold /\ CentreTimes4(s) > 4 * threshold

Squares4Cuts ==
  {s \in (IF lastq.ok /\ lastq.dim = 2 THEN {cube_2d} ELSE {})
          \cup (IF lastq.ok /\ lastq.dim = 3
                  THEN {cube_3d.squares[i] : i \in 1..NSQUARES} ELSE {}) :
     SquareCrossed(s, value) /\ s.number_cuts = 4}

\* C17 as stated: in a square with 4 cuts the cuts keep their recorded order
\* (lines (cut0,cut1) and (cut2,cut3)) if the centre is on the same side of
\* the threshold as corner (0,0), and cuts 1 and 2 are swapped (lines
\* (cut0,cut2) and (cut1,cut3)) otherwise
C17_Original ==
  \A s \in Squares4Cuts :
    IF (s.points[1][1] < value) <=> (CentreTimes4(s) < 4 * value)
      THEN PairedAs(s, value, 0, 1, 2, 3)
    ELSE PairedAs(s, value, 0, 2, 1, 3)

\* C17, amended: in a square with 4 cuts, cuts 1 and 2 are swapped (lines
\* (cut0,cut2) and (cut1,cut3)) if the centre and corner (0,0) are both
\* below or both above the threshold; otherwise the cuts keep their recorded
\* order (lines (cut0,cut1) and (cut2,cut3))
C17_PairingFollowsCentre ==
  \A s \in Squares4Cuts :
    IF CentreWithCorner(s, value)
      THEN PairedAs(s, value, 0, 2, 1, 3)
    ELSE PairedAs(s, value, 0, 1, 2, 3)

C17_Witness ==
  /\ lastq.ok /\ lastq.dim = 2 /\ cube_2d \in Squares4Cuts
  /\ CentreWithCorner(cube_2d, value)
  /\ PairedAs(cube_2d, value, 0, 2, 1, 3)
  /\ ~PairedAs(cube_2d, value, 0, 1, 2, 3)

------------------------------------------------------------------------------
(* Ambiguity of a cube *)

\* the number of corners of the cube c below the threshold
CornersBelow(c, threshold) ==
  Cardinality({q \in (1..2) \X (1..2) \X (1..2) :
                 c.cube[q[1]][q[2]][q[3]] < threshold})

SomeSquareAmbiguous(c) == \E i \in 1..NSQUARES : c.squares[i].ambiguous

\* the 3-D query ran construct_polygons on a cell with at least one line
PolygonsBuilt ==
  /\ cube_dimension = 3 /\ cube_3d.number_lines >= 1
  /\ (lastq.ok \/ ExitedOnLines)

\* C18 as stated: after Cube::construct_polygons on a cell with at least one
\* line the cube is ambiguous if and only if one of its 6 squares is
\* ambiguous, or exactly 6 lines were found and exactly 2 of the 8 corners
\* are below the threshold
C18_Original ==
  PolygonsBuilt =>
    (cube_3d.ambiguous <=>
       \/ SomeSquareAmbiguous(cube_3d)
       \/ (cube_3d.number_lines = 6 /\ CornersBelow(cube_3d, value) = 2))

\* C18, amended: after Cube::construct_polygons on a cell with at least one
\* line the cube is ambiguous if and only if one of its 6 squares is
\* ambiguous or exactly 6 lines were found, whatever the number of corners
\* below the threshold
C18_AmbiguousIffSquareOrSixLines ==
  PolygonsBuilt =>
    (cube_3d.ambiguous <=>
       (SomeSquareAmbiguous(cube_3d) \/ cube_3d.number_lines = 6))

C18_Witness ==
  /\ PolygonsBuilt /\ lastq.ok
  /\ ~SomeSquareAmbiguous(cube_3d)
  /\ cube_3d.number_lines = 6 /\ CornersBelow(cube_3d, value) = 4
  /\ cube_3d.ambiguous /\ cube_3d.number_polygons = 1

------------------------------------------------------------------------------
(* Ambiguity of a hypercube *)

\* the number of the 16 corners of the hypercube h below the threshold
CornersBelow4(h, threshold) ==
  Cardinality({q \in (1..2) \X (1..2) \X (1..2) \X (1..2) :
                 h.hypercube[q[1]][q[2]][q[3]][q[4]] < threshold})

\* n folded to 16 - n when n > 8
Folded(n) == IF n > 8 THEN 16 - n ELSE n

LinesOfCubes(h) == ISum(Tup([i \in 1..NCUBES |-> h.cubes[i].number_lines]))

\* C19: after Hypercube::construct_polyhedra the hypercube is ambiguous if
\* and only if one of its 8 cubes is ambiguous, or the cubes hold 24 lines in
\* all and the number of the 16 corners below the threshold, folded to
\* 16 - n when n > 8, is 2
C19_AmbiguousIffCubeOrTwoCorners ==
  (lastq.ok /\ lastq.dim = 4) =>
    (cube_4d.ambiguous <=>
       \/ \E i \in 1..NCUBES : cube_4d.cubes[i].ambiguous
       \/ (LinesOfCubes(cube_4d) = 24
            /\ Folded(CornersBelow4(cube_4d, value)) = 2))

------------------------------------------------------------------------------
(* Order of the lines of a polygon *)

\* the end of each line of the polygon meets the start of the next one
Chained(poly) ==
  \A k \in 1..(Len(poly.lines) - 1) :
    Dist1(poly.lines[k].end, poly.lines[k + 1].start) < EPSILON

\* the 3-D query emitted the polygons of cube_3d
PolygonsEmitted == lastq.ok /\ lastq.dim = 3 /\ cube_3d.number_polygons >= 1

\* C20 as stated: every polygon emitted by Cube::construct_polygons, in the
\* ambiguous and in the non-ambiguous path, stores its lines head to tail
C20_Original ==
  PolygonsEmitted =>
    \A i \in 1..cube_3d.number_polygons : Chained(cube_3d.polygons[i])

\* C20, amended: every polygon emitted in the ambiguous path stores its
\* lines head to tail within EPSILON; the one polygon of the non-ambiguous
\* path stores the lines of the squares in the order they were collected,
\* as the squares made them
C20_ChainedWhenAmbiguous ==
  PolygonsEmitted =>
    IF cube_3d.ambiguous
      THEN \A i \in 1..cube_3d.number_polygons : Chained(cube_3d.polygons[i])
    ELSE /\ cube_3d.number_polygons = 1
         /\ cube_3d.polygons[1].lines = cube_3d.lines

C20_Witness ==
  /\ PolygonsEmitted /\ cube_3d.ambiguous
  /\ cube_3d.number_polygons >= 2
  /\ \E k \in 1..Len(cube_3d.polygons[1].lines) :
       \E j \in 1..cube_3d.number_lines :
         cube_3d.polygons[1].lines[k] = flip_start_end(cube_3d.lines[j])

------------------------------------------------------------------------------
(* Size of the polygons *)

\* every polygon counted in the cube c has at least 3 lines
PolygonsHaveThreeLines(c) ==
  \A i \in 1..c.number_polygons : Len(c.polygons[i].lines) >= 3

------------------------------------------------------------------------------
(* Completeness of the scan for one polygon *)

\* the indices of the collected lines of the cube c that none of its first
\* k polygons holds, in either orientation
UnusedAfter(c, k) ==
  {j \in 1..c.number_lines :
     \A i \in 1..k : \A n \in 1..Len(c.polygons[i].lines) :
       c.lines[j] \notin {c.polygons[i].lines[n],
                          flip_start_end(c.polygons[i].lines[n])}}

\* the end point of the last line of a polygon
LastEnd(poly) == poly.lines[Len(poly.lines)].end

\* the position of a line of a polygon among the collected lines of c
IndexIn(c, l) ==
  CHOOSE j \in 1..c.number_lines : c.lines[j] \in {l, flip_start_end(l)}

\* the ambiguous path of a 3-D query ran, to its end or to the fatal exit
GrowthRan ==
  cube_dimension = 3 /\ cube_3d.ambiguous /\ (lastq.ok \/ ExitedOnLines)

\* C22: when the scan for a polygon ends, no line that is still unused has
\* its start point or its end point within EPSILON of the end point of the
\* polygon's last line, wherever the line stands among the collected lines;
\* the line at index 0, which a restart passes over, is the first line of
\* the first polygon and so is never unused at a restart
C22_ScanLeavesNoFittingLine ==
  GrowthRan =>
    /\ cube_3d.number_polygons >= 1 =>
         cube_3d.polygons[1].lines[1] = cube_3d.lines[1]
    /\ \A k \in 1..cube_3d.number_polygons :
         \A j \in UnusedAfter(cube_3d, k) :
           /\ Dist1(cube_3d.lines[j].start,
                    LastEnd(cube_3d.polygons[k])) >= EPSILON
           /\ Dist1(cube_3d.lines[j].end,
                    LastEnd(cube_3d.polygons[k])) >= EPSILON

C22_Witness ==
  /\ GrowthRan /\ lastq.ok /\ cube_3d.number_polygons >= 2
  /\ UnusedAfter(cube_3d, 1) # {}
  /\ \E n \in 1..(Len(cube_3d.polygons[1].lines) - 1) :
       IndexIn(cube_3d, cube_3d.polygons[1].lines[n + 1])
         < IndexIn(cube_3d, cube_3d.polygons[1].lines[n])

------------------------------------------------------------------------------
(* Connection of two lines *)

\* some end point of l1 lies within EPSILON of some end point of l2
Coincide(l1, l2) ==
  \E a \in {l1.start, l1.end} : \E b \in {l2.start, l2.end} :
    Dist1(a, b) <= EPSILON

\* the calls add_polygon(ph, new_polygon, false) made by the for loop of the
\* ambiguous path of Hypercube::construct_polyhedra from index i on, as
\* pairs <<ph, new_polygon>>
RECURSIVE ScanCalls(_, _, _)
ScanCalls(polys, st, i) ==
  LET fits == {j \in i..(Len(polys) - 1) :
                 st.not_used[j + 1] /\ add_polygon(st.ph, polys[j + 1], FALSE)[1]}
      lim == IF fits = {} THEN Len(polys) - 1
             ELSE CHOOSE j \in fits : \A m \in fits : j <= m
      here == {<<st.ph, polys[j + 1]>> : j \in {x \in i..lim : st.not_used[x + 1]}}
  IN  IF fits = {} THEN here
      ELSE here \cup
           ScanCalls(polys,
                     [ph |-> add_polygon(st.ph, polys[lim + 1], FALSE)[2],
                      not_used |-> [st.not_used EXCEPT ![lim + 1] = FALSE],
                      used |-> st.used + 1],
                     1)

\* the same for the whole do-while loop
RECURSIVE GrowCalls(_, _, _)
GrowCalls(polys, not_used, used) ==
  LET st0 == [ph |-> init_polyhedron, not_used |-> not_used, used |-> used]
      st == ScanPolygons(polys, st0, 0)
  IN  ScanCalls(polys, st0, 0)
      \cup (IF st.used < Len(polys) THEN GrowCalls(polys, st.not_used, st.used)
            ELSE {})

\* the pairs <<line1, line2>> that one call add_polygon(ph, new_polygon,
\* false) passes to lines_are_connected: the loops run to the first pair
\* that is connected
LinePairs(ph, new_polygon) ==
  LET all == {c \in (1..ph.number_polygons) \X (1..Len(new_polygon.lines))
                     \X (1..MAX_ELEMENTS + 2) :
                c[3] <= Len(ph.polygons[c[1]].lines)}
      hits == {c \in all :
                 lines_are_connected(new_polygon.lines[c[2]],
                                     ph.polygons[c[1]].lines[c[3]])}
      Upto(c, x) == \/ c[1] < x[1]
                    \/ c[1] = x[1] /\ c[2] < x[2]
                    \/ c[1] = x[1] /\ c[2] = x[2] /\ c[3] <= x[3]
  IN  {<<new_polygon.lines[c[2]], ph.polygons[c[1]].lines[c[3]]>> :
         c \in {d \in all : \A x \in hits : Upto(d, x)}}

\* all pairs of lines passed to lines_are_connected by the last 4-D query
ConnectCalls ==
  IF lastq.ok /\ lastq.dim = 4 /\ cube_4d.ambiguous
    THEN UNION {LinePairs(c[1], c[2]) :
                  c \in GrowCalls(cube_4d.polygons,
                                  Tup([i \in 1..(NCUBES * 10) |-> TRUE]), 0)}
  ELSE {}

\* C23: Polyhedron::lines_are_connected(line1, line2) returns true if and
\* only if some end point of line1 coincides within EPSILON with some end
\* point of line2
C23_ConnectedIffEndPointsCoincide ==
  \A c \in ConnectCalls : lines_are_connected(c[1], c[2]) <=> Coincide(c[1], c[2])

------------------------------------------------------------------------------
(* The polygon of a cube that is not ambiguous *)

\* the end points of a sequence of lines
EndPoints(ls) == {ls[k].start : k \in 1..Len(ls)} \cup {ls[k].end : k \in 1..Len(ls)}

\* the lines of ls that end at the point pt
LinesAt(ls, pt) == {k \in 1..Len(ls) : pt \in {ls[k].start, ls[k].end}}

\* the lines form one closed loop: each end point belongs to exactly two
\* lines, no line is a point, and no proper part of the lines is closed
\* under sharing an end point
ClosedLoop(ls) ==
  /\ \A pt \in EndPoints(ls) : Cardinality(LinesAt(ls, pt)) = 2
  /\ \A k \in 1..Len(ls) : ls[k].start # ls[k].end
  /\ \A part \in SUBSET (1..Len(ls)) :
       (part # {} /\ part # 1..Len(ls)) =>
         \E a \in part : \E b \in (1..Len(ls)) \ part :
           {ls[a].start, ls[a].end} \cap {ls[b].start, ls[b].end} # {}

\* the cell of the query q has a corner >= threshold and a corner < threshold
CrossedCell(q) ==
  /\ \E i \in 1..Len(FlatCell(q)) : FlatCell(q)[i] >= q.value
  /\ \E i \in 1..Len(FlatCell(q)) : FlatCell(q)[i] < q.value

\* a 3-D query on a crossed cell returned with the cube not flagged ambiguous
PlainCube ==
  /\ lastq.ok /\ lastq.dim = 3 /\ CrossedCell(lastq)
  /\ ~cube_3d.ambiguous

\* C24: for a crossed 3-D cell whose cube is not flagged ambiguous exactly
\* one polygon is emitted, it holds all collected lines, and the lines form
\* a single closed loop
C24_PlainCubeHasOneLoop ==
  PlainCube =>
    /\ number_elements = 1 /\ cube_3d.number_polygons = 1
    /\ cube_3d.number_lines >= 3
    /\ cube_3d.polygons[1].lines = cube_3d.lines
    /\ ClosedLoop(cube_3d.polygons[1].lines)

C24_Witness ==
  /\ PlainCube /\ cube_3d.number_lines = 5
  /\ ClosedLoop(cube_3d.polygons[1].lines)
  /\ ~Chained(cube_3d.polygons[1])

------------------------------------------------------------------------------
(* Decomposition into squares and cubes *)

\* the tuple k with the entry j put in at position at (1-based)
PutIn(k, at, j) == SubSeq(k, 1, at - 1) \o <<j>> \o SubSeq(k, at, Len(k))

\* the side (0 or 1) of a sub-cell whose constant coordinate i has the
\* value cv, in a parent with spacing dx0; 2 if it is neither
SideOf(cv, i, dx0) ==
  IF cv = 0 THEN 0 ELSE IF cv = At(dx0, i) THEN 1 ELSE 2

\* the squares of the cube c are its 6 faces: square number 2 * (at - 1) + j
\* + 1 holds the corners of c whose index at position at is j, in the order
\* of c, with the constant coordinate at j * dx
SquaresExact(c) ==
  /\ Len(c.squares) = 6
  /\ \A at \in 1..3 : \A j \in 0..1 :
       LET s == c.squares[2 * (at - 1) + j + 1]
           i == <<c.x1, c.x2, c.x3>>[at]
       IN  /\ s.const_i = <<c.const_i, i>>
           /\ s.const_value = <<c.const_value, j * At(c.dx, i)>>
           /\ \A a, b \in 0..1 :
                LET k == PutIn(<<a, b>>, at, j)
                IN  s.points[a + 1][b + 1] = c.cube[k[1] + 1][k[2] + 1][k[3] + 1]

\* the cubes of the hypercube h are its 8 faces, likewise
CubesExact(h) ==
  /\ Len(h.cubes) = 8
  /\ \A i \in 0..3 : \A j \in 0..1 :
       LET c == h.cubes[2 * i + j + 1]
       IN  /\ c.const_i = i
           /\ c.const_value = j * At(h.dx, i)
           /\ \A a, b, d \in 0..1 :
                LET k == PutIn(<<a, b, d>>, i + 1, j)
                IN  c.cube[a + 1][b + 1][d + 1]
                      = h.hypercube[k[1] + 1][k[2] + 1][k[3] + 1][k[4] + 1]

\* every edge of the cube c (the coordinates in fixed are fixed to the
\* sides in side) lies in exactly 2 of its squares
EdgesInTwoSquares(c) ==
  \A free \in 1..3 : \A side \in [(1..3) \ {free} -> 0..1] :
    Cardinality({n \in 1..Len(c.squares) :
       \E at \in (1..3) \ {free} :
         /\ c.squares[n].const_i[2] = <<c.x1, c.x2, c.x3>>[at]
         /\ SideOf(c.squares[n].const_value[2], c.squares[n].const_i[2],
                   c.dx) = side[at]}) = 2

\* every 2-dimensional face of the hypercube h (two coordinates fixed) lies
\* in exactly 2 of its cubes
FacesInTwoCubes(h) ==
  \A fixed \in {f \in SUBSET (0..3) : Cardinality(f) = 2} :
    \A side \in [fixed -> 0..1] :
      Cardinality({n \in 1..Len(h.cubes) :
         /\ h.cubes[n].const_i \in fixed
         /\ SideOf(h.cubes[n].const_value, h.cubes[n].const_i, h.dx)
              = side[h.cubes[n].const_i]}) = 2

\* C25: split_to_squares initialises exactly 6 squares and split_to_cubes
\* exactly 8 cubes; the sub-cell for free dimension i and side j holds the
\* parent's corners whose i-th index is j, in the parent's order, with the
\* constant coordinate j * dx[i]; every cube edge lies in exactly 2 squares
\* and every hypercube face in exactly 2 cubes
C25_DecompositionIsExact ==
  /\ (lastq.ok /\ lastq.dim = 3 /\ CrossedCell(lastq)) =>
       (SquaresExact(cube_3d) /\ EdgesInTwoSquares(cube_3d))
  /\ (lastq.ok /\ lastq.dim = 4 /\ CrossedCell(lastq)) =>
       /\ CubesExact(cube_4d) /\ FacesInTwoCubes(cube_4d)
       /\ \A n \in 1..NCUBES :
            SquaresExact(cube_4d.cubes[n]) /\ EdgesInTwoSquares(cube_4d.cubes[n])

C25_Witness ==
  /\ lastq.ok /\ lastq.dim = 4 /\ CrossedCell(lastq)
  /\ CubesExact(cube_4d)
  /\ cube_4d.cubes[1].cube # cube_4d.cubes[2].cube
  /\ cube_4d.cubes[1].squares[1].points # cube_4d.cubes[1].squares[2].points

------------------------------------------------------------------------------
(* Termination of the loops that build polygons and polyhedra *)

\* the polygons of the cube c that hold its collected line number j, in
\* either orientation
PolygonsWith(c, j) ==
  {i \in 1..c.number_polygons :
     \E n \in 1..Len(c.polygons[i].lines) :
       c.lines[j] \in {c.polygons[i].lines[n],
                       flip_start_end(c.polygons[i].lines[n])}}

\* the number of lines marked used by the passes of the do-while loop of
\* the cube c: each pass fills one polygon
UsedLines(c) ==
  ISum(Tup([i \in 1..c.number_polygons |-> Len(c.polygons[i].lines)]))

\* each pass of the do-while loop of the cube c marked at least one line
EveryPassMarksLine(c) ==
  \A i \in 1..c.number_polygons : Len(c.polygons[i].lines) >= 1

\* the loop of the cube c ended with used = number_lines: every collected
\* line is in exactly one polygon
LinesAllPlaced(c) ==
  /\ UsedLines(c) = c.number_lines
  /\ \A j \in 1..c.number_lines : Cardinality(PolygonsWith(c, j)) = 1

\* the polyhedra of the hypercube h that hold its collected polygon number j
PolyhedraWith(h, j) ==
  {i \in 1..h.number_polyhedra :
     \E n \in 1..h.polyhedra[i].number_polygons :
       h.polyhedra[i].polygons[n] = h.polygons[j]}

\* the number of polygons marked used by the passes of the do-while loop of
\* the hypercube h
UsedPolygons(h) ==
  ISum(Tup([i \in 1..h.number_polyhedra |-> h.polyhedra[i].number_polygons]))

\* the loop of an ambiguous cube ended as the code lets it end
CubeLoopEnded(c) ==
  c.ambiguous => (EveryPassMarksLine(c) /\ LinesAllPlaced(c))

\* C26: every query terminates: each pass of the do-while loop of
\* construct_polygons and of construct_polyhedra marks at least one unused
\* item, the restarts of the inner scan are at most as many as the items,
\* and the loop ends with used equal to the number of collected items, each
\* item in exactly one element, or in the fatal state (reached with fewer
\* than 3 lines left)
C26_LoopsEndWithAllItemsUsed ==
  /\ (lastq.ok /\ lastq.dim = 3 /\ CrossedCell(lastq)) => CubeLoopEnded(cube_3d)
  /\ ExitedOnLines =>
       /\ EveryPassMarksLine(cube_3d)
       /\ UsedLines(cube_3d) <= cube_3d.number_lines
       /\ cube_3d.number_lines - UsedLines(cube_3d) < 3
  /\ (lastq.ok /\ lastq.dim = 4 /\ CrossedCell(lastq)) =>
       /\ \A n \in 1..NCUBES : CubeLoopEnded(cube_4d.cubes[n])
       /\ cube_4d.ambiguous =>
            /\ \A i \in 1..cube_4d.number_polyhedra :
                 cube_4d.polyhedra[i].number_polygons >= 1
            /\ UsedPolygons(cube_4d) = Len(cube_4d.polygons)
            /\ \A j \in 1..Len(cube_4d.polygons) :
                 Cardinality(PolyhedraWith(cube_4d, j)) = 1

C26_Witness ==
  /\ lastq.ok /\ lastq.dim = 4 /\ cube_4d.ambiguous
  /\ cube_4d.number_polyhedra >= 2
  /\ UsedPolygons(cube_4d) = Len(cube_4d.polygons)
  /\ \E n \in 1..NCUBES :
       /\ cube_4d.cubes[n].ambiguous
       /\ cube_4d.cubes[n].number_polygons >= 2
       /\ LinesAllPlaced(cube_4d.cubes[n])

------------------------------------------------------------------------------
(* Element accessors called with any integers *)

\* C27: for every pair of integer arguments (i, component), negative ones
\* included, get_centroid_element and get_normal_element either throw
\* out_of_range or read a stored entry with 0 <= i < get_number_elements()
\* and 0 <= component < dimension; they never read outside the results of
\* the last query
C27_ElementReadsStayInResults ==
  ret.op \in ElementOps =>
    \/ ret.kind = "out_of_range"
    \/ /\ ret.kind = "value"
       /\ 0 <= ret.i /\ ret.i < number_elements
       /\ 0 <= ret.c /\ ret.c < cube_dimension

------------------------------------------------------------------------------
(* A crossed cell gives at least one element *)

\* C28: for every 3-D or 4-D cell with at least one corner >= threshold and
\* at least one corner < threshold, a corner equal to the threshold counting
\* as above, the query that returns normally leaves get_number_elements()
\* >= 1
C28_CrossedCellHasElement ==
  (lastq.ok /\ lastq.dim \in {3, 4} /\ CrossedCell(lastq)) =>
    number_elements >= 1

\* a cell whose only corner not below the threshold is equal to it
C28_Witness ==
  /\ lastq.ok /\ lastq.dim = 3 /\ CrossedCell(lastq)
  /\ \A i \in 1..8 : FlatCell(lastq)[i] <= lastq.value
  /\ Cardinality({i \in 1..8 : FlatCell(lastq)[i] = lastq.value}) = 1
  /\ number_elements = 1

------------------------------------------------------------------------------
(* Fatal exits of a 3-D query *)

\* C29: for every 3-D cell in which no corner value equals the threshold
\* and at least one corner is on each side, find_surface_3d never reaches a
\* fatal exit, neither the cut-count error of ends_of_edge nor the "cannot
\* construct polygon" error of construct_polygons
C29_NoFatalExitOffThreshold ==
  (/\ cube_dimension = 3
   /\ \A i \in 1..8 : Flat3(cube_3d.cube)[i] # value
   /\ \E i \in 1..8 : Flat3(cube_3d.cube)[i] > value
   /\ \E i \in 1..8 : Flat3(cube_3d.cube)[i] < value)
    => pc # "exited"

------------------------------------------------------------------------------
(* SurfaceFinder: the scan of the grid *)

\* SurfaceFinder::check_intersect on the temperatures of the 8 corners: the
\* result is false when each of the 4 pairs of opposite corners has both
\* temperatures strictly on one side of T_cut
check_intersect(T_cut, cube) ==
  ~ /\ (T_cut - cube[1][1][1]) * (cube[2][2][2] - T_cut) < 0
    /\ (T_cut - cube[1][2][1]) * (cube[2][1][2] - T_cut) < 0
    /\ (T_cut - cube[1][2][2]) * (cube[2][1][1] - T_cut) < 0
    /\ (T_cut - cube[1][1][2]) * (cube[2][2][1] - T_cut) < 0

\* the body of the loops of SurfaceFinder::Find_full_hypersurface for one
\* cell of the grid, whose corner temperatures are cube: find_surface_3d is
\* called when check_intersect says so, and one row is written for each
\* element it leaves
ScanCell ==
  /\ pc = "ready"
  /\ ~scan.done
  /\ \E f \in Big3 :
       \E cube \in {Cell3(Shift(f, value))} :
         IF check_intersect(value, cube)
           THEN /\ find_surface_3d(cube)
                /\ scan' = [done |-> TRUE, cube |-> cube, intersect |-> TRUE,
                            called |-> TRUE,
                            written |-> IF pc' = "ready" THEN number_elements'
                                        ELSE 0]
         ELSE /\ scan' = [done |-> TRUE, cube |-> cube, intersect |-> FALSE,
                          called |-> FALSE, written |-> 0]
              /\ UNCHANGED <<initialized, cube_dimension, value, dx,
                             number_elements, normals, centroids, cube_2d,
                             cube_3d, cube_4d, pc, err, ret, nq, lastq, prevq,
                             who, other, compared>>

\* Find_full_hypersurface before its loops: a Cornelius initialised for 3
\* dimensions with T_cut and the spacings of the grid
InitScan == InitCell /\ cube_dimension = 3 /\ dx = DxOf(3, DxUnit)

NextScan == ScanCell

SpecScan == InitScan /\ [][NextScan]_vars

\* C30: the scan never skips a crossed cell: check_intersect returns false
\* only for cells whose 8 corner temperatures are all on the same side of
\* T_cut, so find_surface_3d is called for every cell with at least one
\* corner above and at least one corner below T_cut
C30_NoCrossedCellSkipped ==
  (/\ scan.done
   /\ \E i \in 1..8 : Flat3(scan.cube)[i] > value
   /\ \E i \in 1..8 : Flat3(scan.cube)[i] < value)
    => (scan.intersect /\ scan.called)

====
